---- MODULE Spec2Model ----
(***************************************************************************)
(* State-machine model of the concurrency core of nodejs-ai-glossary:      *)
(*   OrderedQueue, SerialQueue, ParalelQueue (queue.ts) and StreamPiper    *)
(*   (piper.ts).  Every class is modelled by its own group of variables    *)
(*   and checked under its own specification (SpecOQ, SpecSQ, SpecPQ,      *)
(*   SpecSP); the other groups stay at their constructed values.           *)
(*                                                                         *)
(* JavaScript runs one task at a time: an action of the model is the code  *)
(* a task runs between two awaits.  A polling loop                          *)
(*     while (cond) { await new Promise(r => setTimeout(r, 1)); }          *)
(* is a process that leaves the loop in a step taken while cond is false.  *)
(***************************************************************************)
EXTENDS Integers, Sequences, FiniteSets, TLC

\* ---------------------------------------------------------------- bounds
MaxTickets == 4      \* tickets an OrderedQueue issues in one run
MaxK == 2            \* largest OrderedQueue window tried
MaxPushSQ == 3       \* push calls made on a SerialQueue in one run
MaxLimitSQ == 2      \* largest SerialQueue depth limit tried
MaxPushPQ == 3       \* push calls made on a ParalelQueue in one run
MaxLimitPQ == 3      \* largest ParalelQueue limit tried
HEADER_SIZE == 2     \* StreamPiper.HEADER_SIZE, scaled down from 1024 bytes
MaxChunk == 3        \* largest chunk the source emits
MaxHdrCalls == 2     \* getHeader calls made on a StreamPiper in one run
MaxHashCalls == 2    \* getHash calls made on a StreamPiper in one run
MaxRequests == 2     \* upload requests UploadRoute receives in one run
MaxSockets == 1      \* connected sockets QueueTracker.getSockets() lists
MaxWorkers == 2      \* largest ContentWorker.WORKERS_COUNT tried
MaxJobs == 3         \* ContentWorker jobs whose waitResult is called in one run

\* ---------------------------------------------------------------- helpers
Min(a, b) == IF a < b THEN a ELSE b

Range(s) == {s[i] : i \in 1..Len(s)}

\* Array.prototype.indexOf: 0-based index of the first occurrence, or -1.
IndexOf(s, x) ==
    IF \E i \in 1..Len(s) : s[i] = x
    THEN (CHOOSE i \in 1..Len(s) : s[i] = x /\ \A j \in 1..(i-1) : s[j] # x) - 1
    ELSE -1

\* Array.prototype.splice(index, 1) with a 0-based index.
Splice1(s, index) == [i \in 1..(Len(s)-1) |-> IF i <= index THEN s[i] ELSE s[i+1]]

\* Array.prototype.shift: drops the first element, if there is one.
Tail0(s) == IF s = <<>> THEN s ELSE Tail(s)

\* Array.prototype.slice(0, n).
Slice0(s, n) == SubSeq(s, 1, Min(n, Len(s)))

VARIABLES
    \* ---- OrderedQueue
    oq_limit,      \* this.limit
    oq_queue,      \* this.queue: sequence of ticket ids
    oq_waiting,    \* keys of this.waiting
    oq_promise,    \* state of each ticket's promise: "none", "pending", "true", "false"
    oq_next,       \* number of ids randomUUID() has produced (ids are never repeated)
    oq_events,     \* events emitted by the last operation, in order
    oq_ret         \* <<operation, value>>: what the last operation returned

VARIABLES
    \* ---- SerialQueue
    sq_limit,      \* this.limit
    sq_items,      \* this.items (an item is named by the push call that brought it)
    sq_working,    \* this.working
    sq_open,       \* this.open
    sq_push,       \* each push call: "idle", "ready", "blocked", "true", "false"
    sq_ready,      \* push calls whose waitForQueue returned at once, in call order:
                   \* their continuations are queued microtasks
    sq_handlers,   \* item -> number of handler invocations running for it
                   \* (each one is awaited by a live work() loop)
    sq_workDead,   \* a work() loop was ended by a handler that threw
    sq_started,    \* history: items in the order their handler was started
    sq_accepted,   \* history: items in the order push appended them
    sq_cleared,    \* history: clear() or close() has been called
    sq_clearedAt,  \* history: how many items had been appended at the last clear()
    sq_stopped,    \* history: a handler has returned a defined falsy value
    sq_drain       \* the waitForQueue(true) call: "idle", "waiting", "returned"

VARIABLES
    \* ---- ParalelQueue
    pq_limit,      \* this.limit
    pq_items,      \* keys of this.items
    pq_curr,       \* this.curr_working
    pq_push_order, \* this.push_order
    pq_work_order, \* this.work_order
    pq_outp_order, \* this.outp_order
    pq_working,    \* this.working
    pq_clearing,   \* this.clearing
    pq_open,       \* this.open
    pq_push,       \* each push call: "idle", "ready", "blocked", "true", "false"
    pq_ready,      \* push calls whose waitForQueue returned at once, in call order
    pq_seq,        \* push call -> the sequence number it assigned (-1: none)
    pq_loops,      \* work() loops suspended in the wait of line 98
    pq_cb,         \* sequence number -> where its callback() is: "none", "handler",
                   \* "wait" (line 106), "sink" (line 108), "done", "cleared" (returned
                   \* at line 107), "thrown" (rejected by the handler)
    pq_res,        \* sequence number -> the local variable result
    pq_sink,       \* history: the outp_callback calls, in order
    pq_finished,   \* history: sequence numbers in the order their handlers ended
    pq_cleared,    \* history: clear() or close() has been called
    pq_dropped,    \* history: sequence numbers assigned before a clear() or close()
                   \* whose sink call had not begun when it was called
    pq_drain,      \* the waitForQueue(true) call: "idle", "waiting", "returned"
    pq_late        \* history: the push calls made after a clear() or close()

VARIABLES
    \* ---- StreamPiper and the streams it holds
    sp_src,            \* the bytes the source holds; a byte is named by its position
    sp_pos,            \* bytes the source has emitted in 'data' events
    sp_chunks,         \* 'data' events the source has emitted
    sp_flowing,        \* sourceStream is in flowing mode (resume() / pause())
    sp_resumed,        \* sourceStream.resume() has been called at least once
    sp_srcState,       \* "open", "ended" ('end' emitted), "errored", "destroyed"
    sp_listeners,      \* [data, end, error]: handlers attached to the source
    sp_isInitialized,  \* this.isInitialized
    sp_isHeaderFinalized, \* this.isHeaderFinalized
    sp_header,         \* this.header
    sp_hashInput,      \* the bytes given to this.hash.update, in order
    sp_dataHash,       \* this.dataHash (<<>> is null)
    sp_headerPromise,  \* this.headerPromise: [state, value]
    sp_hashPromise,    \* this.hashPromise: [state, value]
    sp_out,            \* the bytes written to this.outputStream, in order
    sp_outRead,        \* how many of them the consumer has read
    sp_outEnded,       \* this.outputStream.end() was called
    sp_outError,       \* 'error' was emitted on this.outputStream
    sp_streamTaken,    \* getStream() handed the output stream to a consumer
    sp_hdrCall,        \* each getHeader call: [pc, value], pc "idle", "waiting", "returned"
    sp_hashCall,       \* each getHash call: [pc, value]
    sp_writeFile,      \* the writeFile call: "idle", "piping", "done", "failed"
    sp_test            \* history: how far the run follows runTest of piper_test.ts:
                       \* "start", "header", "writing", "written", "hashed", "off"

varsSP == <<sp_src, sp_pos, sp_chunks, sp_flowing, sp_resumed, sp_srcState, sp_listeners,
            sp_isInitialized, sp_isHeaderFinalized, sp_header, sp_hashInput, sp_dataHash,
            sp_headerPromise, sp_hashPromise, sp_out, sp_outRead, sp_outEnded,
            sp_outError, sp_streamTaken, sp_hdrCall, sp_hashCall, sp_writeFile, sp_test>>

VARIABLES
    \* ---- QueueTrackerController (on top of the OrderedQueue) and UploadRoute._post
    qt_socketIdMap,    \* this.socketIdMap: ticket id -> socketId, 0 for no entry
    qt_reverseMap,     \* this.reverseMap: socketId -> ticket id, 0 for no entry
    ur_pc,             \* each request: where its _post call stands: "idle" (not
                       \* received), "rejected" (line 39), "waiting" (line 54),
                       \* "left54", "left56" (returned there), "header" (line 62),
                       \* "writing" (line 65), "processing" (lines 67-83),
                       \* "finished" (the finally block has run)
    ur_socketId,       \* each request: the id getIpId() found in its url, 0 for ''
    ur_position,       \* each request: the ticket QueueTracker.enqueue returned, 0 for none
    ur_closed,         \* each request: req has emitted 'close' (file_stream is destroyed)
    ur_result          \* each request: what _post returned: "none", an error code,
                       \* "200.0", "throw" or "undefined"

VARIABLES
    \* ---- ContentWorker (statics of the class, one waitResult call per job)
    cw_WORKERS_COUNT,  \* ContentWorker.WORKERS_COUNT
    cw_FREE_WORKERS,   \* ContentWorker.FREE_WORKERS
    cw_WORKER_INDEX,   \* ContentWorker.WORKER_INDEX
    cw_WORKERS,        \* ContentWorker.WORKERS.length (a worker is named by its index)
    cw_pc,             \* each job: where its waitResult call stands: "idle",
                       \* "creating" (line 117), "polling" (line 84), "ready"
                       \* (waitInQueue has returned, line 90 not yet run),
                       \* "awaiting" (line 100), "returned"
    cw_i,              \* each job: the loop index i of its createWorkers call
    cw_ready,          \* continuations queued as microtasks, in order
    cw_worker,         \* each job: index of the worker it posted its request to, -1 for none
    cw_running,        \* each worker: the jobs whose request its handler is processing
    cw_listeners,      \* each worker: the jobs whose 'message' listener is attached to it
    cw_result          \* each job: the job whose response resolved its promise, 0 for none

varsUR == <<qt_socketIdMap, qt_reverseMap, ur_pc, ur_socketId, ur_position, ur_closed, ur_result>>
varsCW == <<cw_WORKERS_COUNT, cw_FREE_WORKERS, cw_WORKER_INDEX, cw_WORKERS, cw_pc, cw_i,
            cw_ready, cw_worker, cw_running, cw_listeners, cw_result>>

varsOQ == <<oq_limit, oq_queue, oq_waiting, oq_promise, oq_next, oq_events, oq_ret>>
varsSQ == <<sq_limit, sq_items, sq_working, sq_open, sq_push, sq_ready, sq_handlers,
            sq_workDead, sq_started, sq_accepted, sq_cleared, sq_clearedAt, sq_stopped, sq_drain>>

varsPQ == <<pq_limit, pq_items, pq_curr, pq_push_order, pq_work_order, pq_outp_order,
            pq_working, pq_clearing, pq_open, pq_push, pq_ready, pq_seq, pq_loops,
            pq_cb, pq_res, pq_sink, pq_finished, pq_cleared, pq_dropped, pq_drain, pq_late>>

vars == <<varsOQ, varsSQ, varsPQ, varsSP, varsUR, varsCW>>

\* ================================================================ OrderedQueue
\* (queue.ts, class OrderedQueue)
Tickets == 1..MaxTickets

InitOQv ==
    /\ oq_limit \in 1..MaxK
    /\ oq_queue = <<>>
    /\ oq_waiting = {}
    /\ oq_promise = [t \in Tickets |-> "none"]
    /\ oq_next = 0
    /\ oq_events = <<>>
    /\ oq_ret = <<"none", FALSE>>

\* OrderedQueue.inqueue
inqueue(id) == id \in Range(oq_queue)

\* (mutant) the window test off by one: index <= limit
activeIn_OffByOne(q, id) == IndexOf(q, id) > -1 /\ IndexOf(q, id) <= oq_limit

\* OrderedQueue.active, on a given queue
activeIn(q, id) == IndexOf(q, id) > -1 /\ IndexOf(q, id) < oq_limit

\* OrderedQueue.active
active(id) == activeIn(oq_queue, id)

\* OrderedQueue.getPosition
getPosition(id) == IndexOf(oq_queue, id)

\* Promise resolve(v): settles a pending promise, no effect on a settled one.
Resolve(pr, id, v) == IF pr[id] = "pending" THEN [pr EXCEPT ![id] = v] ELSE pr

\* OrderedQueue.processQueue on queue q, waiting map w and promises pr:
\* walks queue.slice(0, limit); returns the promises and the events emitted.
RECURSIVE processQueueFrom(_, _, _, _, _)
processQueueFrom(users, i, w, pr, ev) ==
    IF i > Len(users) THEN [promise |-> pr, events |-> ev]
    ELSE IF users[i] \notin w
         THEN processQueueFrom(users, i + 1, w, pr, ev)
         ELSE processQueueFrom(users, i + 1, w, Resolve(pr, users[i], "true"),
                               Append(ev, <<"active", users[i]>>))

\* (mutant) the walk covers one ticket more than the window: slice(0, limit + 1)
processQueue_WideWindow(q, w, pr, ev) == processQueueFrom(Slice0(q, oq_limit + 1), 1, w, pr, ev)

\* (mutant) the walk starts behind the head of the queue: slice(1, limit + 1)
processQueue_SkipsHead(q, w, pr, ev) ==
    processQueueFrom(Slice0(Tail0(q), oq_limit), 1, w, pr, ev)

\* (mutant) the window is not re-evaluated
processQueue_NoAdmit(q, w, pr, ev) == [promise |-> pr, events |-> ev]

processQueue(q, w, pr, ev) == processQueueFrom(Slice0(q, oq_limit), 1, w, pr, ev)

\* OrderedQueue.enqueue
enqueue ==
    /\ oq_next < MaxTickets
    /\ LET id == oq_next + 1
           q  == Append(oq_queue, id)
           w  == oq_waiting \cup {id}
           pr == [oq_promise EXCEPT ![id] = "pending"]
           r  == processQueue(q, w, pr, <<>>)
       IN /\ oq_next' = id
          /\ oq_queue' = q
          /\ oq_waiting' = w
          /\ oq_promise' = r.promise
          /\ oq_events' = r.events
          /\ oq_ret' = <<"enqueue", id>>
    /\ UNCHANGED oq_limit

\* (mutant) dequeue re-evaluates the window and emits also when the ticket is
\* not in the queue
dequeue_AbsentNotifies(id) ==
    LET index == IndexOf(oq_queue, id)
        q  == IF index > -1 THEN Splice1(oq_queue, index) ELSE oq_queue
        pr == IF id \in oq_waiting THEN Resolve(oq_promise, id, "false") ELSE oq_promise
        w  == oq_waiting \ {id}
        r  == processQueue(q, w, pr, <<<<"dequeue", id>>>>)
    IN /\ oq_queue' = q
       /\ oq_waiting' = w
       /\ oq_promise' = r.promise
       /\ oq_events' = r.events
       /\ oq_ret' = <<"dequeue", index > -1>>
       /\ UNCHANGED <<oq_limit, oq_next>>

\* OrderedQueue.dequeue(id)
dequeue(id) ==
    LET index == IndexOf(oq_queue, id) IN
    IF index > -1
    THEN LET q  == Splice1(oq_queue, index)
             pr == IF id \in oq_waiting THEN Resolve(oq_promise, id, "false") ELSE oq_promise
             w  == oq_waiting \ {id}
             r  == processQueue(q, w, pr, <<<<"dequeue", id>>>>)
         IN /\ oq_queue' = q
            /\ oq_waiting' = w
            /\ oq_promise' = r.promise
            /\ oq_events' = r.events
            /\ oq_ret' = <<"dequeue", TRUE>>
            /\ UNCHANGED <<oq_limit, oq_next>>
    ELSE /\ oq_ret' = <<"dequeue", FALSE>>
         /\ oq_events' = <<>>
         /\ UNCHANGED <<oq_limit, oq_queue, oq_waiting, oq_promise, oq_next>>

\* OrderedQueue.wait(id): false when the ticket has no waiter, otherwise the
\* ticket's promise ("pending" while the caller stays suspended).
wait(id) == IF id \notin oq_waiting THEN "false" ELSE oq_promise[id]

\* QueueTrackerController.getQueueState: the position it reports for the ticket
\* at 0-based index idx, negative inside the window and 1-based behind it
queuePosition(idx) == IF idx >= oq_limit THEN idx - oq_limit + 1 ELSE idx - oq_limit

OQEnqueue == enqueue /\ UNCHANGED <<varsSQ, varsPQ, varsSP, varsUR, varsCW>>
OQDequeue == (\E id \in Tickets : dequeue(id)) /\ UNCHANGED <<varsSQ, varsPQ, varsSP, varsUR, varsCW>>

NextOQ == OQEnqueue \/ OQDequeue

\* ---------------------------------------------------------------- claims, OrderedQueue
Enqueued == Range(oq_queue)
ActiveSet == {t \in Tickets : active(t)}
\* the min(K, n) earliest arrivals among the enqueued tickets (ids count arrivals)
EarliestK == {t \in Enqueued : Cardinality({u \in Enqueued : u < t}) < oq_limit}

\* C3: in every reachable state the tickets for which active() is true are
\* exactly the first min(K, n) enqueued tickets in arrival order, so exactly
\* min(K, n) tickets are active.
C3_ActiveIsFirstK ==
    /\ ActiveSet = EarliestK
    /\ ActiveSet = Range(Slice0(oq_queue, oq_limit))
    /\ Cardinality(ActiveSet) = Min(oq_limit, Len(oq_queue))

\* C3 witness: more tickets enqueued than the window holds, after a dequeue
\* moved a later arrival into the window.
C3_Witness ==
    /\ Len(oq_queue) > oq_limit
    /\ oq_ret = <<"dequeue", TRUE>>
    /\ \E t \in ActiveSet : t > oq_limit

\* C4: after every enqueue and dequeue, wait() of each enqueued ticket inside
\* the window has resolved true and wait() of each enqueued ticket outside it is
\* still pending; a wait turns true only in a step that brings the ticket
\* into the window.
C4_State ==
    \A t \in Enqueued :
        /\ active(t) => wait(t) = "true"
        /\ ~active(t) => wait(t) = "pending"

C4_Step ==
    \A t \in Tickets :
        (oq_promise[t] # "true" /\ oq_promise'[t] = "true")
            => (~active(t) /\ activeIn(oq_queue', t))

C4_WaitResolvesOnAdmission == [](C4_State) /\ [][C4_Step]_vars

\* C4 witness: a dequeue has just admitted the ticket that is now last in the
\* window (it arrived after the dequeued one), and a ticket is still waiting.
C4_Witness ==
    /\ Len(oq_queue) > oq_limit
    /\ Len(oq_events) >= 2
    /\ oq_events[1][1] = "dequeue"
    /\ oq_events[Len(oq_events)] = <<"active", oq_queue[oq_limit]>>
    /\ oq_events[1][2] < oq_queue[oq_limit]
    /\ wait(oq_queue[oq_limit]) = "true"
    /\ wait(oq_queue[oq_limit + 1]) = "pending"

\* the step removes ticket id from the queue
Dequeues(id) == id \in Range(oq_queue) /\ id \notin Range(oq_queue')

\* C15: a dequeue of a ticket outside the window returns true and resolves the
\* ticket's pending wait with false; for every other ticket active() and the
\* outcome of wait() are the same before and after.
C15_Step ==
    \A id \in Tickets :
        (Dequeues(id) /\ ~active(id)) =>
            /\ oq_ret' = <<"dequeue", TRUE>>
            /\ oq_promise[id] = "pending"
            /\ oq_promise'[id] = "false"
            /\ \A t \in Tickets \ {id} :
                  /\ active(t) <=> activeIn(oq_queue', t)
                  /\ oq_promise'[t] = oq_promise[t]
                  /\ wait(t)' = wait(t)

C15_DequeueWaiting == [][C15_Step]_vars

\* C15 witness: the last operation dequeued a ticket that was never admitted
\* (its wait resolved false), with the window full and another ticket waiting.
C15_Witness ==
    /\ oq_ret = <<"dequeue", TRUE>>
    /\ oq_events # <<>>
    /\ oq_events[1][1] = "dequeue"
    /\ oq_promise[oq_events[1][2]] = "false"
    /\ Len(oq_queue) > oq_limit
    /\ wait(oq_queue[oq_limit + 1]) = "pending"

\* C16: when an active ticket is dequeued while more than K tickets are
\* enqueued, the ticket at 0-based index K enters the window and its wait
\* turns from pending to true in that step; the other active tickets stay
\* active with wait true, and every other waiting ticket stays outside the
\* window with its wait pending.
C16_Step ==
    \A id \in Tickets :
        (Dequeues(id) /\ active(id) /\ Len(oq_queue) > oq_limit) =>
            LET n == oq_queue[oq_limit + 1] IN
            /\ ~active(n)
            /\ oq_promise[n] = "pending"
            /\ activeIn(oq_queue', n)
            /\ oq_promise'[n] = "true"
            /\ \A t \in Tickets \ {id} :
                  active(t) => (activeIn(oq_queue', t) /\ oq_promise'[t] = "true")
            /\ \A t \in Enqueued \ {n} :
                  ~active(t) => (~activeIn(oq_queue', t) /\ oq_promise'[t] = "pending")

C16_DequeueActiveAdmitsNext == [][C16_Step]_vars

\* C16 witness: with K = 2 the last operation dequeued an admitted ticket, the
\* ticket now last in the window was admitted by it, the other active ticket
\* arrived before the dequeued one, and a ticket is still waiting.
C16_Witness ==
    /\ oq_limit = 2
    /\ Len(oq_queue) > oq_limit
    /\ oq_events # <<>>
    /\ oq_events[1][1] = "dequeue"
    /\ oq_promise[oq_events[1][2]] = "true"
    /\ oq_queue[1] < oq_events[1][2]
    /\ oq_events[Len(oq_events)] = <<"active", oq_queue[2]>>
    /\ oq_promise[oq_queue[3]] = "pending"

\* C17 (the claim as stated): a wait() call made on a ticket whose promise has
\* settled returns the value the promise settled with, also when the ticket
\* has been dequeued since.
C17_WaitMemoized ==
    \A t \in Tickets : oq_promise[t] \in {"true", "false"} => wait(t) = oq_promise[t]

\* C18: tickets are admitted in arrival order (ticket ids count arrivals): a
\* ticket's wait has not resolved true while an earlier arrival is enqueued
\* with its wait not resolved true.
C18_AdmissionInArrivalOrder ==
    \A a, b \in Tickets :
        (a < b /\ oq_promise[b] = "true" /\ a \in Enqueued) => oq_promise[a] = "true"

\* C18 witness: a ticket that arrived when the window was full has been
\* admitted after an earlier arrival that is still enqueued, and a later
\* arrival is still waiting.
C18_Witness ==
    \E a, b, c \in Enqueued :
        /\ a < b /\ b < c
        /\ b > oq_limit
        /\ oq_promise[a] = "true"
        /\ oq_promise[b] = "true"
        /\ oq_promise[c] = "pending"

\* the scenario of C19: K = 2 and the tickets A, B, C are 1, 2, 3
C19_AfterEnqueues == oq_limit = 2 /\ oq_queue = <<1, 2, 3>>
C19_AfterDequeueA ==
    /\ oq_limit = 2
    /\ oq_queue = <<2, 3>>
    /\ oq_next = 3
    /\ oq_events # <<>>
    /\ oq_events[1] = <<"dequeue", 1>>

\* C19 (the claim as stated): in the scenario, after the three enqueues A and B
\* are active and C waits with getPosition(C) = 1; after dequeue(A), B and C
\* are active.
C19_ScenarioAsStated ==
    /\ C19_AfterEnqueues =>
          (active(1) /\ active(2) /\ ~active(3) /\ wait(3) = "pending" /\ getPosition(3) = 1)
    /\ C19_AfterDequeueA => (active(2) /\ active(3) /\ wait(3) = "true")

\* C19 (amended): in the scenario, after the three enqueues A and B are active
\* and C waits with getPosition(C) = 2, its 0-based index, for which
\* getQueueState reports the waiting position 1; after dequeue(A), B and C are
\* active and the wait of C has resolved true.
C19_Scenario ==
    /\ C19_AfterEnqueues =>
          /\ active(1) /\ active(2) /\ ~active(3)
          /\ wait(1) = "true" /\ wait(2) = "true" /\ wait(3) = "pending"
          /\ getPosition(3) = 2
          /\ queuePosition(getPosition(3)) = 1
    /\ C19_AfterDequeueA =>
          /\ active(2) /\ active(3)
          /\ wait(2) = "true" /\ wait(3) = "true"
          /\ getPosition(1) = -1

\* C19 witness: the scenario has run to its end.
C19_Witness == C19_AfterDequeueA /\ oq_promise[1] = "true"

\* C29 (the claim as stated): an enqueue or dequeue emits no 'active' event
\* for a ticket whose wait had already resolved true, and a settled wait
\* keeps its outcome.
C29_Step ==
    \A t \in Tickets :
        /\ oq_promise[t] = "true" =>
              \A k \in 1..Len(oq_events') : oq_events'[k] # <<"active", t>>
        /\ oq_promise[t] \in {"true", "false"} => oq_promise'[t] = oq_promise[t]

C29_AdmittedOnce == [][C29_Step]_vars

\* C30, in every step: a dequeue returns false exactly when it leaves the
\* queue as it was, and then the waiters and every wait outcome are as
\* before and no event is emitted; a dequeue of an enqueued ticket never
\* returns false.
C30_Step ==
    oq_ret'[1] = "dequeue" =>
        /\ (oq_ret'[2] = FALSE) <=> (oq_queue' = oq_queue)
        /\ oq_ret'[2] = FALSE =>
              /\ oq_waiting' = oq_waiting
              /\ oq_promise' = oq_promise
              /\ oq_events' = <<>>
              /\ \A t \in Tickets : (active(t) <=> activeIn(oq_queue', t)) /\ wait(t)' = wait(t)
        /\ oq_ret'[2] = TRUE => Len(oq_queue') = Len(oq_queue) - 1

C30_DequeueAbsent == [][C30_Step]_vars

\* C30 witness: the last operation was a dequeue that returned false, of a
\* ticket never issued or dequeued before, on a queue with a full window, a
\* waiting ticket and an earlier ticket already gone.
C30_Witness ==
    /\ oq_ret = <<"dequeue", FALSE>>
    /\ oq_events = <<>>
    /\ Len(oq_queue) > oq_limit
    /\ oq_next > Len(oq_queue)
    /\ wait(oq_queue[Len(oq_queue)]) = "pending"

\* ================================================================ SerialQueue
\* (queue.ts, class SerialQueue)
PushersSQ == 1..MaxPushSQ

InitSQv ==
    /\ sq_limit \in 1..MaxLimitSQ
    /\ sq_items = <<>>
    /\ sq_working = FALSE
    /\ sq_open = TRUE
    /\ sq_push = [p \in PushersSQ |-> "idle"]
    /\ sq_ready = <<>>
    /\ sq_handlers = [p \in PushersSQ |-> 0]
    /\ sq_workDead = FALSE
    /\ sq_started = <<>>
    /\ sq_accepted = <<>>
    /\ sq_cleared = FALSE
    /\ sq_clearedAt = 0
    /\ sq_stopped = FALSE
    /\ sq_drain = "idle"

\* SerialQueue.size / max
sq_size == Len(sq_items)
sq_max == sq_limit

\* The loop test of SerialQueue.work and the call it makes: with the test
\* true the handler of items[0] is started and work() awaits it, otherwise
\* work() sets working = false and returns.  st holds items, working,
\* handlers, started.
sq_workLoop(st) ==
    IF st.working /\ Len(st.items) > 0
    THEN [st EXCEPT !.handlers[st.items[1]] = @ + 1,
                    !.started = Append(@, st.items[1])]
    ELSE [st EXCEPT !.working = FALSE]

\* SerialQueue.work up to its first await: working = true, then the loop.
sq_work(st) == sq_workLoop([st EXCEPT !.working = TRUE])

\* (mutant) push starts work() whatever this.working says
sq_pushStartsWork_Always(working) == TRUE

\* the test `if (!this.working)` of SerialQueue.push
sq_pushStartsWork(working) == ~working

\* (mutant) push appends without looking at this.open
sq_pushBody_IgnoresOpen(p) ==
    LET st0 == [items |-> Append(sq_items, p), working |-> sq_working,
                handlers |-> sq_handlers, started |-> sq_started]
        st  == IF sq_pushStartsWork(sq_working) THEN sq_work(st0) ELSE st0
    IN /\ sq_items' = st.items
       /\ sq_working' = st.working
       /\ sq_handlers' = st.handlers
       /\ sq_started' = st.started
       /\ sq_accepted' = Append(sq_accepted, p)
       /\ sq_push' = [sq_push EXCEPT ![p] = "true"]

\* SerialQueue.push after `await this.waitForQueue(false)`.
sq_pushBody(p) ==
    IF ~sq_open
    THEN /\ sq_push' = [sq_push EXCEPT ![p] = "false"]
         /\ UNCHANGED <<sq_items, sq_working, sq_handlers, sq_started, sq_accepted>>
    ELSE LET st0 == [items |-> Append(sq_items, p), working |-> sq_working,
                     handlers |-> sq_handlers, started |-> sq_started]
             st  == IF sq_pushStartsWork(sq_working) THEN sq_work(st0) ELSE st0
         IN /\ sq_items' = st.items
            /\ sq_working' = st.working
            /\ sq_handlers' = st.handlers
            /\ sq_started' = st.started
            /\ sq_accepted' = Append(sq_accepted, p)
            /\ sq_push' = [sq_push EXCEPT ![p] = "true"]

\* the loop test of SerialQueue.waitForQueue(false)
sq_mustWait == sq_open /\ Len(sq_items) >= sq_limit

\* the loop test of SerialQueue.waitForQueue(true)
sq_mustDrain == sq_open /\ Len(sq_items) > 0

\* push is called: waitForQueue(false) runs up to its first await.  When it
\* need not wait it returns at once and push continues in a later microtask.
SQPushCall(p) ==
    /\ sq_push[p] = "idle"
    /\ IF sq_mustWait
       THEN sq_push' = [sq_push EXCEPT ![p] = "blocked"] /\ UNCHANGED sq_ready
       ELSE sq_push' = [sq_push EXCEPT ![p] = "ready"] /\ sq_ready' = Append(sq_ready, p)
    /\ UNCHANGED <<sq_limit, sq_items, sq_working, sq_open, sq_handlers, sq_workDead,
                   sq_started, sq_accepted, sq_cleared, sq_clearedAt, sq_stopped, sq_drain>>
    /\ UNCHANGED <<varsOQ, varsPQ, varsSP, varsUR, varsCW>>

\* the continuation of the oldest push call that did not have to wait
SQPushCont ==
    /\ sq_ready # <<>>
    /\ sq_pushBody(Head(sq_ready))
    /\ sq_ready' = Tail(sq_ready)
    /\ UNCHANGED <<sq_limit, sq_open, sq_workDead, sq_cleared, sq_clearedAt, sq_stopped, sq_drain>>
    /\ UNCHANGED <<varsOQ, varsPQ, varsSP, varsUR, varsCW>>

\* a timer of a suspended push fires and finds the loop test false: the loop
\* ends and push continues in the same run of the microtask queue.
SQPushPoll(p) ==
    /\ sq_push[p] = "blocked"
    /\ sq_ready = <<>>
    /\ ~sq_mustWait
    /\ sq_pushBody(p)
    /\ UNCHANGED <<sq_limit, sq_open, sq_ready, sq_workDead, sq_cleared, sq_clearedAt, sq_stopped, sq_drain>>
    /\ UNCHANGED <<varsOQ, varsPQ, varsSP, varsUR, varsCW>>

\* The handler running for item i ends; r is what it did: "ok" (undefined or
\* truthy), "stop" (a defined falsy value) or "throw".  The work() loop
\* awaiting it goes on from line 36.
SQHandlerEnd(i, r) ==
    /\ sq_handlers[i] > 0
    /\ LET h == [sq_handlers EXCEPT ![i] = @ - 1] IN
       CASE r = "ok" ->
              LET st == sq_workLoop([items |-> Tail0(sq_items), working |-> sq_working,
                                     handlers |-> h, started |-> sq_started])
              IN /\ sq_items' = st.items
                 /\ sq_working' = st.working
                 /\ sq_handlers' = st.handlers
                 /\ sq_started' = st.started
                 /\ UNCHANGED <<sq_open, sq_workDead, sq_cleared, sq_clearedAt, sq_stopped, sq_drain>>
         [] r = "stop" ->
              /\ sq_open' = FALSE
              /\ sq_working' = FALSE
              /\ sq_items' = <<>>
              /\ sq_cleared' = TRUE
              /\ sq_clearedAt' = Len(sq_accepted)
              /\ sq_handlers' = h
              /\ sq_stopped' = TRUE
              /\ UNCHANGED <<sq_workDead, sq_started>>
         [] r = "throw" ->
              /\ sq_handlers' = h
              /\ sq_workDead' = TRUE
              /\ UNCHANGED <<sq_items, sq_working, sq_open, sq_started, sq_cleared, sq_clearedAt, sq_stopped, sq_drain>>
    /\ UNCHANGED <<sq_limit, sq_push, sq_ready, sq_accepted, sq_drain>>
    /\ UNCHANGED <<varsOQ, varsPQ, varsSP, varsUR, varsCW>>

\* waitForQueue(true) is called: it runs up to its first await
SQDrainCall ==
    /\ sq_drain = "idle"
    /\ sq_drain' = IF sq_mustDrain THEN "waiting" ELSE "returned"
    /\ UNCHANGED <<sq_limit, sq_items, sq_working, sq_open, sq_push, sq_ready,
                   sq_handlers, sq_workDead, sq_started, sq_accepted, sq_cleared,
                   sq_clearedAt, sq_stopped>>
    /\ UNCHANGED <<varsOQ, varsPQ, varsSP, varsUR, varsCW>>

\* a timer of the suspended waitForQueue(true) fires and finds the test false
SQDrainPoll ==
    /\ sq_drain = "waiting"
    /\ sq_ready = <<>>
    /\ ~sq_mustDrain
    /\ sq_drain' = "returned"
    /\ UNCHANGED <<sq_limit, sq_items, sq_working, sq_open, sq_push, sq_ready,
                   sq_handlers, sq_workDead, sq_started, sq_accepted, sq_cleared,
                   sq_clearedAt, sq_stopped>>
    /\ UNCHANGED <<varsOQ, varsPQ, varsSP, varsUR, varsCW>>

\* SerialQueue.clear
SQClear ==
    /\ sq_items' = <<>>
    /\ sq_cleared' = TRUE
    /\ sq_clearedAt' = Len(sq_accepted)
    /\ UNCHANGED <<sq_limit, sq_working, sq_open, sq_push, sq_ready, sq_handlers,
                   sq_workDead, sq_started, sq_accepted, sq_stopped, sq_drain>>
    /\ UNCHANGED <<varsOQ, varsPQ, varsSP, varsUR, varsCW>>

\* SerialQueue.close
SQClose ==
    /\ sq_open' = FALSE
    /\ sq_working' = FALSE
    /\ sq_items' = <<>>
    /\ sq_cleared' = TRUE
    /\ sq_clearedAt' = Len(sq_accepted)
    /\ UNCHANGED <<sq_limit, sq_push, sq_ready, sq_handlers, sq_workDead, sq_started,
                   sq_accepted, sq_stopped, sq_drain>>
    /\ UNCHANGED <<varsOQ, varsPQ, varsSP, varsUR, varsCW>>

NextSQ ==
    \/ \E p \in PushersSQ : SQPushCall(p)
    \/ SQPushCont
    \/ \E p \in PushersSQ : SQPushPoll(p)
    \/ \E i \in PushersSQ, r \in {"ok", "stop", "throw"} : SQHandlerEnd(i, r)
    \/ SQClear
    \/ SQClose
    \/ SQDrainCall
    \/ SQDrainPoll

\* ---------------------------------------------------------------- claims, SerialQueue
RunningSQ == {i \in PushersSQ : sq_handlers[i] > 0}

\* C7: at most one handler invocation runs at a time; handlers are started in
\* the order the items were appended; and while clear()/close() have not been
\* called no item is skipped: the started items are a prefix of the appended
\* ones, each started only after the previous handler has ended.
C7_OneAtATimeInOrder ==
    /\ Cardinality(RunningSQ) <= 1
    /\ \A i \in PushersSQ : sq_handlers[i] <= 1
    /\ \A a, b \in 1..Len(sq_started) :
          a < b => /\ IndexOf(sq_accepted, sq_started[a]) > -1
                   /\ IndexOf(sq_accepted, sq_started[a]) < IndexOf(sq_accepted, sq_started[b])
    /\ RunningSQ # {} => RunningSQ = {sq_started[Len(sq_started)]}
    /\ ~sq_cleared => sq_started = SubSeq(sq_accepted, 1, Len(sq_started))

\* C7 witness: the second item's handler runs after the first has ended, and a
\* third item was appended meanwhile and waits for its turn.
C7_Witness ==
    /\ ~sq_cleared
    /\ Len(sq_started) = 2
    /\ Len(sq_accepted) = 3
    /\ sq_handlers[sq_started[2]] = 1
    /\ sq_handlers[sq_started[1]] = 0

\* C8 (the claim as stated): size() never exceeds max().
C8_SizeWithinMax == sq_size <= sq_max

\* C20, in every state: a handler that returned a defined falsy value has
\* closed the queue, and a closed queue has no backlog.
C20_State ==
    /\ sq_stopped => ~sq_open
    /\ ~sq_open => sq_items = <<>>

\* C20, in every step: a closed queue stays closed and empty, starts no
\* handler and appends nothing, and a push call that returns returns false;
\* close() itself ends no running handler.
C20_Step ==
    /\ ~sq_open =>
          /\ ~sq_open'
          /\ sq_items' = <<>>
          /\ sq_started' = sq_started
          /\ sq_accepted' = sq_accepted
          /\ \A i \in PushersSQ : sq_handlers'[i] <= sq_handlers[i]
          /\ \A p \in PushersSQ :
                (sq_push[p] \in {"ready", "blocked"} /\ sq_push'[p] # sq_push[p]) =>
                    sq_push'[p] = "false"
    /\ (sq_open /\ ~sq_open' /\ sq_stopped' = sq_stopped) => sq_handlers' = sq_handlers

\* C20: once a handler has returned a defined falsy value or close() was
\* called, the queue is closed for good: the backlog is emptied, no handler is
\* started, a running handler is left alone, and every push returns false
\* without appending.
C20_ClosedForGood == [](C20_State) /\ [][C20_Step]_vars

\* C20 witness: a handler's falsy result closed the queue while an appended
\* item had not been started, and a push has returned false since.
C20_Witness ==
    /\ sq_stopped
    /\ ~sq_open
    /\ Len(sq_accepted) > Len(sq_started)
    /\ \E p \in PushersSQ : sq_push[p] = "false"

\* C21, in every state: on a closed queue the loop test that holds back a
\* suspended push is false, so the push leaves its wait at the next timer.
C21_State == ~sq_open => ~sq_mustWait

\* C21, in every step: a push that was suspended at the limit and goes on once
\* the queue is closed returns false, and nothing is appended.
C21_Step ==
    \A p \in PushersSQ :
        (sq_push[p] = "blocked" /\ ~sq_open /\ sq_push'[p] # "blocked") =>
            /\ sq_push'[p] = "false"
            /\ sq_items' = sq_items
            /\ sq_accepted' = sq_accepted
            /\ p \notin Range(sq_accepted')

\* C21: a caller suspended in push at the limit is released by a close and
\* its push returns false without appending the item.
C21_BlockedPushReleasedByClose == [](C21_State) /\ [][C21_Step]_vars

\* C21 witness: the queue was closed while a push is suspended at the limit;
\* the backlog is gone and the push is about to go on.
C21_Witness ==
    /\ ~sq_open
    /\ sq_ready = <<>>
    /\ \E p \in PushersSQ : sq_push[p] = "blocked"

\* Nothing of the queue can run any more unless push, clear or close is called:
\* no continuation is queued, no handler runs, and every suspended loop finds
\* its test true.
SQQuiet ==
    /\ sq_ready = <<>>
    /\ \A i \in PushersSQ : sq_handlers[i] = 0
    /\ \A p \in PushersSQ : sq_push[p] = "blocked" => sq_mustWait
    /\ sq_drain = "waiting" => sq_mustDrain

\* C22 (the claim as stated): after a handler threw, once nothing can run any
\* more no caller is left suspended in push or in waitForQueue(true).
C22_NoHangAfterThrow ==
    (sq_workDead /\ SQQuiet) =>
        /\ \A p \in PushersSQ : sq_push[p] # "blocked"
        /\ sq_drain # "waiting"

\* the items push appended after the last clear(), in push order
sq_lateItems == SubSeq(sq_accepted, sq_clearedAt + 1, Len(sq_accepted))

\* C37 (the claim as stated): on an open queue that was cleared and where no
\* handler threw, once nothing can run any more the handlers started last are
\* those of the items appended after the last clear(), each once and in push
\* order.
C37_ClearKeepsLaterItems ==
    (sq_open /\ sq_cleared /\ ~sq_workDead /\ SQQuiet) =>
        /\ Len(sq_started) >= Len(sq_lateItems)
        /\ SubSeq(sq_started, Len(sq_started) - Len(sq_lateItems) + 1, Len(sq_started))
              = sq_lateItems

\* ================================================================ ParalelQueue
\* (queue.ts, class ParalelQueue)
PushersPQ == 1..MaxPushPQ
Orders == 0..(MaxPushPQ - 1)

InitPQv ==
    /\ pq_limit \in 1..MaxLimitPQ
    /\ pq_items = {}
    /\ pq_curr = 0
    /\ pq_push_order = 0
    /\ pq_work_order = 0
    /\ pq_outp_order = 0
    /\ pq_working = FALSE
    /\ pq_clearing = FALSE
    /\ pq_open = TRUE
    /\ pq_push = [p \in PushersPQ |-> "idle"]
    /\ pq_ready = <<>>
    /\ pq_seq = [p \in PushersPQ |-> -1]
    /\ pq_loops = 0
    /\ pq_cb = [o \in Orders |-> "none"]
    /\ pq_res = [o \in Orders |-> <<"undefined">>]
    /\ pq_sink = <<>>
    /\ pq_finished = <<>>
    /\ pq_cleared = FALSE
    /\ pq_dropped = {}
    /\ pq_drain = "idle"
    /\ pq_late = {}

\* ParalelQueue.size / max
pq_size == pq_curr
pq_max == pq_limit

\* The fields the synchronous runs of work() and callback() read and write.
pq_state ==
    [items |-> pq_items, curr |-> pq_curr, work_order |-> pq_work_order,
     outp_order |-> pq_outp_order, working |-> pq_working, clearing |-> pq_clearing,
     loops |-> pq_loops, cb |-> pq_cb, sink |-> pq_sink]

pq_setState(st) ==
    /\ pq_items' = st.items
    /\ pq_curr' = st.curr
    /\ pq_work_order' = st.work_order
    /\ pq_outp_order' = st.outp_order
    /\ pq_working' = st.working
    /\ pq_clearing' = st.clearing
    /\ pq_loops' = st.loops
    /\ pq_cb' = st.cb
    /\ pq_sink' = st.sink

\* (mutant) the in-flight counter is not decremented
pq_finish_KeepsSlot(st, o) ==
    [st EXCEPT !.items = @ \ {o}, !.outp_order = @ + 1, !.cb[o] = "done"]

\* callback(), lines 109-111: the entry is deleted and the counters move on.
pq_finish(st, o) ==
    [st EXCEPT !.items = @ \ {o}, !.curr = @ - 1, !.outp_order = @ + 1, !.cb[o] = "done"]

\* callback(), lines 107-108, reached when the loop of line 106 has ended; res
\* is the callback's local result.  push_order is read at line 107.
pq_turn(st, o, res, push_order) ==
    IF st.clearing
    THEN [st EXCEPT !.outp_order = push_order, !.cb[o] = "cleared"]
    ELSE IF pq_open /\ o \in st.items
         THEN [st EXCEPT !.sink = Append(@, [order |-> o, result |-> res]),
                         !.cb[o] = "sink"]
         ELSE pq_finish(st, o)

\* (mutant) a callback does not wait for its turn
pq_notMyTurn_Never(st, o) == FALSE

\* the loop test of line 106
pq_notMyTurn(st, o) == ~st.clearing /\ st.outp_order # o

\* callback() from line 106 on, when the handler has returned (or was skipped).
pq_afterHandler(st, o, res, push_order) ==
    IF pq_notMyTurn(st, o)
    THEN [st EXCEPT !.cb[o] = "wait"]
    ELSE pq_turn(st, o, res, push_order)

\* callback() up to its first await: with the queue open the handler is
\* launched and awaited; otherwise result stays undefined.
pq_callback(st, o, push_order) ==
    IF pq_open
    THEN [st EXCEPT !.cb[o] = "handler"]
    ELSE pq_afterHandler(st, o, <<"undefined">>, push_order)

\* (mutant) the loop of line 98 lets one handler too many through
pq_workMustWait_OffByOne(curr) == pq_open /\ curr > pq_limit

\* the loop test of line 98
pq_workMustWait(curr) == pq_open /\ curr >= pq_limit

\* The loop of work(), lines 92-99, run until work() suspends at line 98 or
\* returns at line 101.
RECURSIVE pq_workLoop(_, _)
pq_workLoop(st, push_order) ==
    IF st.working /\ st.items # {} /\ st.work_order < push_order
    THEN IF st.work_order \notin st.items
         THEN pq_workLoop([st EXCEPT !.work_order = @ + 1], push_order)
         ELSE LET o  == st.work_order
                  s1 == pq_callback([st EXCEPT !.work_order = @ + 1, !.curr = @ + 1],
                                    o, push_order)
              IN IF pq_workMustWait(s1.curr)
                 THEN [s1 EXCEPT !.loops = @ + 1]
                 ELSE pq_workLoop(s1, push_order)
    ELSE [st EXCEPT !.working = FALSE]

\* work() up to its first await.
pq_work(st, push_order) ==
    pq_workLoop([st EXCEPT !.working = TRUE, !.clearing = FALSE], push_order)

\* the loop test of waitForQueue(false), line 85
pq_mustWait == pq_open /\ Cardinality(pq_items) >= pq_limit

\* (mutant) waitForQueue(true) does not look at the open flag
pq_mustDrain_IgnoresOpen == pq_outp_order # pq_push_order

\* the loop test of waitForQueue(true), line 84
pq_mustDrain == pq_open /\ pq_outp_order # pq_push_order

\* push() after `await this.waitForQueue(false)`, lines 77-80.
pq_pushBody(p) ==
    IF ~pq_open
    THEN /\ pq_push' = [pq_push EXCEPT ![p] = "false"]
         /\ UNCHANGED <<pq_items, pq_curr, pq_push_order, pq_work_order, pq_outp_order,
                        pq_working, pq_clearing, pq_seq, pq_loops, pq_cb, pq_sink>>
    ELSE LET st0 == [pq_state EXCEPT !.items = @ \cup {pq_push_order}]
             po  == pq_push_order + 1
             st  == IF ~pq_working THEN pq_work(st0, po) ELSE st0
         IN /\ pq_setState(st)
            /\ pq_push_order' = po
            /\ pq_seq' = [pq_seq EXCEPT ![p] = pq_push_order]
            /\ pq_push' = [pq_push EXCEPT ![p] = "true"]

\* push is called: waitForQueue(false) runs up to its first await.  The push
\* calls are numbered in the order they are made.
PQPushCall(p) ==
    /\ pq_push[p] = "idle"
    /\ \A q \in 1..(p - 1) : pq_push[q] # "idle"
    /\ IF pq_mustWait
       THEN pq_push' = [pq_push EXCEPT ![p] = "blocked"] /\ UNCHANGED pq_ready
       ELSE pq_push' = [pq_push EXCEPT ![p] = "ready"] /\ pq_ready' = Append(pq_ready, p)
    /\ pq_late' = IF pq_cleared THEN pq_late \cup {p} ELSE pq_late
    /\ UNCHANGED <<pq_limit, pq_items, pq_curr, pq_push_order, pq_work_order,
                   pq_outp_order, pq_working, pq_clearing, pq_open, pq_seq, pq_loops,
                   pq_cb, pq_res, pq_sink, pq_finished, pq_cleared, pq_dropped, pq_drain>>
    /\ UNCHANGED <<varsOQ, varsSQ, varsSP, varsUR, varsCW>>

\* the continuation of the oldest push call that did not have to wait
PQPushCont ==
    /\ pq_ready # <<>>
    /\ pq_pushBody(Head(pq_ready))
    /\ pq_ready' = Tail(pq_ready)
    /\ UNCHANGED <<pq_limit, pq_open, pq_res, pq_finished, pq_cleared, pq_dropped, pq_drain, pq_late>>
    /\ UNCHANGED <<varsOQ, varsSQ, varsSP, varsUR, varsCW>>

\* a timer of a suspended push fires and finds the loop test false
PQPushPoll(p) ==
    /\ pq_push[p] = "blocked"
    /\ pq_ready = <<>>
    /\ ~pq_mustWait
    /\ pq_pushBody(p)
    /\ UNCHANGED <<pq_limit, pq_open, pq_ready, pq_res, pq_finished, pq_cleared, pq_dropped, pq_drain, pq_late>>
    /\ UNCHANGED <<varsOQ, varsSQ, varsSP, varsUR, varsCW>>

\* a timer of a work() loop suspended at line 98 fires and finds the test false
PQWorkPoll ==
    /\ pq_loops > 0
    /\ pq_ready = <<>>
    /\ ~pq_workMustWait(pq_curr)
    /\ pq_setState(pq_workLoop([pq_state EXCEPT !.loops = @ - 1], pq_push_order))
    /\ UNCHANGED <<pq_limit, pq_push_order, pq_open, pq_push, pq_ready, pq_seq, pq_res,
                   pq_finished, pq_cleared, pq_dropped, pq_drain, pq_late>>
    /\ UNCHANGED <<varsOQ, varsSQ, varsSP, varsUR, varsCW>>

\* the handler launched for sequence number o returns
PQHandlerReturn(o) ==
    /\ pq_cb[o] = "handler"
    /\ pq_res' = [pq_res EXCEPT ![o] = <<"result", o>>]
    /\ pq_setState(pq_afterHandler(pq_state, o, <<"result", o>>, pq_push_order))
    /\ pq_finished' = Append(pq_finished, o)
    /\ UNCHANGED <<pq_limit, pq_push_order, pq_open, pq_push, pq_ready, pq_seq, pq_cleared, pq_dropped, pq_drain, pq_late>>
    /\ UNCHANGED <<varsOQ, varsSQ, varsSP, varsUR, varsCW>>

\* the handler launched for sequence number o throws (or its promise rejects):
\* the await of line 105 throws and callback() ends there, rejected.
PQHandlerThrow(o) ==
    /\ pq_cb[o] = "handler"
    /\ pq_cb' = [pq_cb EXCEPT ![o] = "thrown"]
    /\ pq_finished' = Append(pq_finished, o)
    /\ UNCHANGED <<pq_limit, pq_items, pq_curr, pq_push_order, pq_work_order,
                   pq_outp_order, pq_working, pq_clearing, pq_open, pq_push, pq_ready,
                   pq_seq, pq_loops, pq_res, pq_sink, pq_cleared, pq_dropped, pq_drain, pq_late>>
    /\ UNCHANGED <<varsOQ, varsSQ, varsSP, varsUR, varsCW>>

\* a timer of a callback suspended at line 106 fires and finds the test false
PQTurnPoll(o) ==
    /\ pq_cb[o] = "wait"
    /\ pq_ready = <<>>
    /\ ~pq_notMyTurn(pq_state, o)
    /\ pq_setState(pq_turn(pq_state, o, pq_res[o], pq_push_order))
    /\ UNCHANGED <<pq_limit, pq_push_order, pq_open, pq_push, pq_ready, pq_seq, pq_res,
                   pq_finished, pq_cleared, pq_dropped, pq_drain, pq_late>>
    /\ UNCHANGED <<varsOQ, varsSQ, varsSP, varsUR, varsCW>>

\* the outp_callback call made for sequence number o returns
PQSinkReturn(o) ==
    /\ pq_cb[o] = "sink"
    /\ pq_setState(pq_finish(pq_state, o))
    /\ UNCHANGED <<pq_limit, pq_push_order, pq_open, pq_push, pq_ready, pq_seq, pq_res,
                   pq_finished, pq_cleared, pq_dropped, pq_drain, pq_late>>
    /\ UNCHANGED <<varsOQ, varsSQ, varsSP, varsUR, varsCW>>

\* waitForQueue(true) is called: it runs up to its first await
PQDrainCall ==
    /\ pq_drain = "idle"
    /\ pq_drain' = IF pq_mustDrain THEN "waiting" ELSE "returned"
    /\ UNCHANGED <<pq_limit, pq_items, pq_curr, pq_push_order, pq_work_order,
                   pq_outp_order, pq_working, pq_clearing, pq_open, pq_push, pq_ready,
                   pq_seq, pq_loops, pq_cb, pq_res, pq_sink, pq_finished, pq_cleared,
                   pq_dropped, pq_late>>
    /\ UNCHANGED <<varsOQ, varsSQ, varsSP, varsUR, varsCW>>

\* a timer of the suspended waitForQueue(true) fires and finds the test false
PQDrainPoll ==
    /\ pq_drain = "waiting"
    /\ pq_ready = <<>>
    /\ ~pq_mustDrain
    /\ pq_drain' = "returned"
    /\ UNCHANGED <<pq_limit, pq_items, pq_curr, pq_push_order, pq_work_order,
                   pq_outp_order, pq_working, pq_clearing, pq_open, pq_push, pq_ready,
                   pq_seq, pq_loops, pq_cb, pq_res, pq_sink, pq_finished, pq_cleared,
                   pq_dropped, pq_late>>
    /\ UNCHANGED <<varsOQ, varsSQ, varsSP, varsUR, varsCW>>

\* history: the sequence numbers assigned so far whose sink call has not begun
pq_pending == {o \in 0..(pq_push_order - 1) : \A k \in 1..Len(pq_sink) : pq_sink[k].order # o}

\* (mutant) clear() forgets to empty the map
PQClear_KeepsItems ==
    /\ pq_clearing' = TRUE
    /\ pq_cleared' = TRUE
    /\ pq_dropped' = pq_dropped \cup pq_pending
    /\ UNCHANGED <<pq_limit, pq_items, pq_curr, pq_push_order, pq_work_order,
                   pq_outp_order, pq_working, pq_open, pq_push, pq_ready, pq_seq,
                   pq_loops, pq_cb, pq_res, pq_sink, pq_finished, pq_drain, pq_late>>
    /\ UNCHANGED <<varsOQ, varsSQ, varsSP, varsUR, varsCW>>

\* ParalelQueue.clear
PQClear ==
    /\ pq_items' = {}
    /\ pq_clearing' = TRUE
    /\ pq_cleared' = TRUE
    /\ pq_dropped' = pq_dropped \cup pq_pending
    /\ UNCHANGED <<pq_limit, pq_curr, pq_push_order, pq_work_order, pq_outp_order,
                   pq_working, pq_open, pq_push, pq_ready, pq_seq, pq_loops, pq_cb,
                   pq_res, pq_sink, pq_finished, pq_drain, pq_late>>
    /\ UNCHANGED <<varsOQ, varsSQ, varsSP, varsUR, varsCW>>

\* ParalelQueue.close
PQClose ==
    /\ pq_open' = FALSE
    /\ pq_working' = FALSE
    /\ pq_items' = {}
    /\ pq_clearing' = TRUE
    /\ pq_cleared' = TRUE
    /\ pq_dropped' = pq_dropped \cup pq_pending
    /\ UNCHANGED <<pq_limit, pq_curr, pq_push_order, pq_work_order, pq_outp_order,
                   pq_push, pq_ready, pq_seq, pq_loops, pq_cb, pq_res, pq_sink,
                   pq_finished, pq_drain, pq_late>>
    /\ UNCHANGED <<varsOQ, varsSQ, varsSP, varsUR, varsCW>>

NextPQ ==
    \/ \E p \in PushersPQ : PQPushCall(p)
    \/ PQPushCont
    \/ \E p \in PushersPQ : PQPushPoll(p)
    \/ PQWorkPoll
    \/ \E o \in Orders : PQHandlerReturn(o)
    \/ \E o \in Orders : PQHandlerThrow(o)
    \/ \E o \in Orders : PQTurnPoll(o)
    \/ \E o \in Orders : PQSinkReturn(o)
    \/ PQClear
    \/ PQClose
    \/ PQDrainCall
    \/ PQDrainPoll

\* ---------------------------------------------------------------- claims, ParalelQueue
InFlightPQ == {o \in Orders : pq_cb[o] = "handler"}
SinkOrders == [k \in 1..Len(pq_sink) |-> pq_sink[k].order]
Emitted == Range(SinkOrders)
Accepted == {pq_seq[p] : p \in {q \in PushersPQ : pq_seq[q] # -1}}

\* C1: the sink is called in increasing sequence order, each time with the
\* result of that item's own handler, and only for accepted items, whatever
\* order the handlers end in; while clear()/close() have not been called the
\* sequence numbers the sink has seen are 0, 1, 2, ... without gap or repeat.
C1_EmitInSubmissionOrder ==
    /\ \A a, b \in 1..Len(pq_sink) : a < b => pq_sink[a].order < pq_sink[b].order
    /\ \A k \in 1..Len(pq_sink) :
          /\ pq_sink[k].order \in Accepted
          /\ pq_sink[k].result = <<"result", pq_sink[k].order>>
    /\ ~pq_cleared => \A k \in 1..Len(pq_sink) : pq_sink[k].order = k - 1

\* C1 witness: items 0 and 1 were both emitted although the handler of item 1
\* ended before the handler of item 0.
C1_Witness ==
    /\ ~pq_cleared
    /\ Len(pq_sink) >= 2
    /\ Len(pq_finished) >= 2
    /\ pq_finished[1] = 1
    /\ pq_finished[2] = 0

\* C2: the handlers launched and not yet ended never outnumber the limit.
C2_InFlightWithinLimit == Cardinality(InFlightPQ) <= pq_limit

\* C2 witness: after a clear(), as many handlers as the limit allows run
\* while an accepted item waits to be launched.
C2_Witness ==
    /\ pq_limit = 2
    /\ pq_cleared
    /\ Cardinality(InFlightPQ) = pq_limit
    /\ \E o \in pq_items : pq_cb[o] = "none"

\* C9 (the claim as stated): on an open queue that was never cleared, a
\* callback that has ended, because its handler returned or because it threw,
\* has handed its item to the sink.
C9_FailureIsEmitted ==
    (pq_open /\ ~pq_cleared) =>
        \A o \in Orders : pq_cb[o] \in {"done", "thrown", "cleared"} => o \in Emitted

\* C11: an item that was accepted before a clear() (or close()) and whose
\* sink call had not begun at that moment is never handed to the sink, whether
\* its handler ends before or after the clear().
C11_ClearedNeverEmitted ==
    \A k \in 1..Len(pq_sink) : pq_sink[k].order \notin pq_dropped

\* C11 witness: on an open queue the callback of a dropped item has returned
\* without a sink call after its handler ended, and an item pushed after the
\* clear() was handed to the sink.
C11_Witness ==
    /\ pq_open
    /\ \E o \in pq_dropped :
          /\ pq_cb[o] = "cleared"
          /\ o \in Range(pq_finished)
          /\ \E k \in 1..Len(pq_sink) : pq_sink[k].order > o

\* Nothing of the queue can run any more unless push, clear or close is called:
\* no continuation is queued, no handler or sink call is in progress, and every
\* suspended loop finds its test true.
PQQuiet ==
    /\ pq_ready = <<>>
    /\ \A o \in Orders : pq_cb[o] \notin {"handler", "sink"}
    /\ \A o \in Orders : pq_cb[o] = "wait" => pq_notMyTurn(pq_state, o)
    /\ pq_loops > 0 => pq_workMustWait(pq_curr)
    /\ \A p \in PushersPQ : pq_push[p] = "blocked" => pq_mustWait
    /\ pq_drain = "waiting" => pq_mustDrain

\* C12 (the claim as stated): on an open queue where no handler threw, once
\* nothing can run any more, every item accepted from a push call made after a
\* clear(), and not dropped by a later clear(), has been launched and handed
\* to the sink.
C12_UsableAfterClear ==
    (pq_open /\ PQQuiet /\ \A o \in Orders : pq_cb[o] # "thrown") =>
        \A p \in pq_late :
            (pq_push[p] = "true" /\ pq_seq[p] \notin pq_dropped) => pq_seq[p] \in Emitted

\* C13, in every closed state: the loop tests that hold back a suspended push
\* and a suspended waitForQueue(true) are false, so both are released.
C13_Released == ~pq_open => (~pq_mustWait /\ ~pq_mustDrain)

\* C13, in every step taken on a closed queue: no sequence number is assigned,
\* a push call that returns returns false, and no sink call begins.
C13_Step ==
    ~pq_open =>
        /\ pq_push_order' = pq_push_order
        /\ pq_seq' = pq_seq
        /\ pq_items' = {}
        /\ pq_sink' = pq_sink
        /\ \A o \in Orders : pq_cb'[o] = "sink" => pq_cb[o] = "sink"
        /\ \A p \in PushersPQ :
              (pq_push[p] \in {"ready", "blocked"} /\ pq_push'[p] # pq_push[p]) =>
                  pq_push'[p] = "false"

\* C13: after close() every push, a suspended one included, returns false
\* without a sequence number, a waitForQueue(true) caller is released, and no
\* sink call is started.
C13_AfterClose == [](C13_Released) /\ [][C13_Step]_vars

\* C13 witness: on a closed queue a push has returned false, a handler that was
\* running at close() has ended without a sink call, and the drain wait has
\* returned although the output counter never caught up.
C13_Witness ==
    /\ ~pq_open
    /\ \E p \in PushersPQ : pq_push[p] = "false"
    /\ \E o \in Orders : pq_cb[o] = "cleared" /\ o \in Range(pq_finished)
    /\ pq_drain = "returned"
    /\ pq_outp_order # pq_push_order

\* C14 (the claim as stated): at most one sink call is in progress.
C14_OneSinkAtATime == Cardinality({o \in Orders : pq_cb[o] = "sink"}) <= 1

\* C33: on an open queue that was never cleared and where no handler threw,
\* a callback whose handler has ended waits at line 106 only until the timer
\* that finds every smaller sequence number emitted (the output counter has
\* not passed it), and once nothing can run any more every
\* accepted item has been handed to the sink, in full, and a waitForQueue(true)
\* caller has returned.
C33_EverythingEmitted ==
    (pq_open /\ ~pq_cleared /\ \A o \in Orders : pq_cb[o] # "thrown") =>
        /\ \A o \in Orders : pq_cb[o] = "wait" => pq_outp_order <= o
        /\ pq_outp_order = Len(pq_sink) - Cardinality({o \in Orders : pq_cb[o] = "sink"})
        /\ PQQuiet =>
              /\ \A p \in PushersPQ : pq_push[p] \notin {"blocked", "ready"}
              /\ \A o \in Accepted : o \in Emitted /\ pq_cb[o] = "done"
              /\ pq_outp_order = pq_push_order
              /\ pq_drain # "waiting"

\* C33 witness: three items were accepted, the handler of a later one ended
\* first, all three were emitted and the drain wait, which had to wait, has
\* returned.
C33_Witness ==
    /\ pq_open /\ ~pq_cleared
    /\ PQQuiet
    /\ pq_limit = 2
    /\ Len(pq_sink) = 3
    /\ pq_finished[1] # 0
    /\ pq_drain = "returned"
    /\ \A p \in PushersPQ : pq_push[p] = "true"

\* C34 (the claim as stated): outp_order and work_order never exceed
\* push_order.
C34_CountersWithinPushOrder ==
    /\ pq_outp_order <= pq_push_order
    /\ pq_work_order <= pq_push_order

\* C35 (the claim as stated): while no handler threw, the in-flight counter
\* equals the number of launched callbacks that have not ended.
C35_SizeCountsRunningCallbacks ==
    (\A o \in Orders : pq_cb[o] # "thrown") =>
        pq_size = Cardinality({o \in Orders : pq_cb[o] \in {"handler", "wait", "sink"}})

\* C36 (the claim as stated): the map of pending results never holds more
\* than limit entries.
C36_ItemsWithinLimit == Cardinality(pq_items) <= pq_limit

\* ================================================================ StreamPiper
\* (piper.ts, class StreamPiper; the source is a Node Readable, the output a
\* PassThrough)
MaxLen == HEADER_SIZE + 2
HdrCallers == 1..MaxHdrCalls
HashCallers == 1..MaxHashCalls

\* createHash('sha256') ... digest('hex'): the digest of a byte sequence; two
\* digests are equal exactly when the hashed bytes are.
Digest(bytes) == <<"sha256", bytes>>

Pending == [state |-> "pending", value |-> <<>>]

\* the resolve function of a promise: the first call settles it
ResolveP(pr, v) == IF pr.state = "pending" THEN [state |-> "resolved", value |-> v] ELSE pr

\* StreamPiper constructor; the source holds L bytes and is paused.
InitSPv ==
    /\ sp_src \in {[i \in 1..L |-> i] : L \in 0..MaxLen}
    /\ sp_pos = 0
    /\ sp_chunks = 0
    /\ sp_flowing = FALSE
    /\ sp_resumed = FALSE
    /\ sp_srcState = "open"
    /\ sp_listeners = [data |-> 0, end |-> 0, error |-> 0]
    /\ sp_isInitialized = FALSE
    /\ sp_isHeaderFinalized = FALSE
    /\ sp_header = <<>>
    /\ sp_hashInput = <<>>
    /\ sp_dataHash = <<>>
    /\ sp_headerPromise = Pending
    /\ sp_hashPromise = Pending
    /\ sp_out = <<>>
    /\ sp_outRead = 0
    /\ sp_outEnded = FALSE
    /\ sp_outError = FALSE
    /\ sp_streamTaken = FALSE
    /\ sp_hdrCall = [c \in HdrCallers |-> [pc |-> "idle", value |-> <<>>]]
    /\ sp_hashCall = [c \in HashCallers |-> [pc |-> "idle", value |-> <<>>]]
    /\ sp_writeFile = "idle"
    /\ sp_test = "start"

\* The fields the source's handlers read and write.
sp_state ==
    [hashInput |-> sp_hashInput, header |-> sp_header, finalized |-> sp_isHeaderFinalized,
     headerPromise |-> sp_headerPromise, hashPromise |-> sp_hashPromise,
     dataHash |-> sp_dataHash, out |-> sp_out, outEnded |-> sp_outEnded,
     outError |-> sp_outError]

sp_setState(st) ==
    /\ sp_hashInput' = st.hashInput
    /\ sp_header' = st.header
    /\ sp_isHeaderFinalized' = st.finalized
    /\ sp_headerPromise' = st.headerPromise
    /\ sp_hashPromise' = st.hashPromise
    /\ sp_dataHash' = st.dataHash
    /\ sp_out' = st.out
    /\ sp_outEnded' = st.outEnded
    /\ sp_outError' = st.outError

\* (mutant) the header takes the whole chunk
sp_bytesToTake_All(header, chunk) == Len(chunk)

\* lines 62-63: bytes of the chunk that go to the header
sp_bytesToTake(header, chunk) == Min(HEADER_SIZE - Len(header), Len(chunk))

\* lines 61-68 of the 'data' handler: header capture
sp_captureHeader(st, chunk) ==
    IF st.finalized THEN st
    ELSE LET h == st.header \o SubSeq(chunk, 1, sp_bytesToTake(st.header, chunk)) IN
         IF Len(h) >= HEADER_SIZE
         THEN [st EXCEPT !.header = h, !.finalized = TRUE,
                         !.headerPromise = ResolveP(@, h)]
         ELSE [st EXCEPT !.header = h]

\* highWaterMark of `new PassThrough()` (16384 bytes), scaled down
sp_highWaterMark == 1

\* PassThrough.write(chunk): the chunk is buffered whether or not somebody
\* reads; after end() the write fails with an 'error' on the stream.
sp_write(st, chunk) ==
    IF st.outEnded THEN [st EXCEPT !.outError = TRUE]
    ELSE [st EXCEPT !.out = @ \o chunk]

\* the 'data' handler, lines 53-72
sp_onData(st, chunk) ==
    sp_write(sp_captureHeader([st EXCEPT !.hashInput = @ \o chunk], chunk), chunk)

\* (mutant) the digest is taken over the header bytes only
sp_onEnd_DigestOfHeader(st) ==
    LET s1 == [st EXCEPT !.finalized = TRUE]
        s2 == IF Len(s1.header) < HEADER_SIZE
              THEN [s1 EXCEPT !.headerPromise = ResolveP(@, s1.header)]
              ELSE s1
        d  == Digest(s2.header)
    IN [s2 EXCEPT !.dataHash = d, !.hashPromise = ResolveP(@, d), !.outEnded = TRUE]

\* the 'end' handler, lines 74-79
sp_onEnd(st) ==
    LET s1 == [st EXCEPT !.finalized = TRUE]
        s2 == IF Len(s1.header) < HEADER_SIZE
              THEN [s1 EXCEPT !.headerPromise = ResolveP(@, s1.header)]
              ELSE s1
        d  == Digest(s2.hashInput)
    IN [s2 EXCEPT !.dataHash = d, !.hashPromise = ResolveP(@, d), !.outEnded = TRUE]

\* the 'error' handler, lines 81-83
sp_onError(st) == [st EXCEPT !.outError = TRUE]

\* EventEmitter.emit: every attached handler runs, in turn.
RECURSIVE sp_emitData(_, _, _)
sp_emitData(st, chunk, n) == IF n = 0 THEN st ELSE sp_emitData(sp_onData(st, chunk), chunk, n - 1)

RECURSIVE sp_emitEnd(_, _)
sp_emitEnd(st, n) == IF n = 0 THEN st ELSE sp_emitEnd(sp_onEnd(st), n - 1)

RECURSIVE sp_emitError(_, _)
sp_emitError(st, n) == IF n = 0 THEN st ELSE sp_emitError(sp_onError(st), n - 1)

\* (mutant) _initialize attaches its handlers on every call
sp_mustInitialize_Always(isInitialized) == TRUE

\* line 49: _initialize does its work only on the first call
sp_mustInitialize(isInitialized) == ~isInitialized

\* _initialize(), lines 48-86: attaches the three handlers and resumes the
\* source (on('data') itself does not resume a stream that was paused).
sp_initialize ==
    IF sp_mustInitialize(sp_isInitialized)
    THEN /\ sp_isInitialized' = TRUE
         /\ sp_listeners' = [data |-> sp_listeners.data + 1, end |-> sp_listeners.end + 1,
                             error |-> sp_listeners.error + 1]
         /\ sp_flowing' = TRUE
         /\ sp_resumed' = TRUE
    ELSE UNCHANGED <<sp_isInitialized, sp_listeners, sp_flowing, sp_resumed>>

\* _initialize() followed by sourceStream.resume(), as getStream and getHash do
sp_initializeAndResume ==
    /\ IF sp_mustInitialize(sp_isInitialized)
       THEN /\ sp_isInitialized' = TRUE
            /\ sp_listeners' = [data |-> sp_listeners.data + 1,
                                end |-> sp_listeners.end + 1,
                                error |-> sp_listeners.error + 1]
       ELSE UNCHANGED <<sp_isInitialized, sp_listeners>>
    /\ sp_flowing' = TRUE
    /\ sp_resumed' = TRUE

\* How far the calls made so far follow runTest: getHeader, wait, writeFile,
\* getHash, each awaited before the next.
sp_script(test, event) ==
    CASE event = "hdrCall"  -> IF test = "start" THEN "hdrCall" ELSE "off"
      [] event = "hdrRet"   -> IF test = "hdrCall" THEN "header" ELSE test
      [] event = "wfCall"   -> IF test = "header" THEN "writing" ELSE "off"
      [] event = "wfDone"   -> IF test = "writing" THEN "written" ELSE test
      [] event = "hashCall" -> IF test = "written" THEN "hashCall" ELSE "off"
      [] event = "hashRet"  -> IF test = "hashCall" THEN "hashed" ELSE test
      [] OTHER -> "off"

\* ---- the source stream
\* The source emits its next n bytes as one 'data' event.
SPData(n) ==
    /\ sp_srcState = "open"
    /\ sp_flowing
    /\ n <= Len(sp_src) - sp_pos
    /\ sp_pos' = sp_pos + n
    /\ sp_chunks' = sp_chunks + 1
    /\ sp_setState(sp_emitData(sp_state, SubSeq(sp_src, sp_pos + 1, sp_pos + n),
                               sp_listeners.data))
    /\ UNCHANGED <<sp_src, sp_flowing, sp_resumed, sp_srcState, sp_listeners,
                   sp_isInitialized, sp_outRead, sp_streamTaken, sp_hdrCall, sp_hashCall,
                   sp_writeFile, sp_test>>
    /\ UNCHANGED <<varsOQ, varsSQ, varsPQ, varsUR, varsCW>>

\* The source emits 'end': all its bytes were emitted and it has been resumed.
\* A stream paused after its last chunk was read may still emit 'end'.
SPEnd ==
    /\ sp_srcState = "open"
    /\ sp_resumed
    /\ sp_pos = Len(sp_src)
    /\ sp_srcState' = "ended"
    /\ sp_setState(sp_emitEnd(sp_state, sp_listeners.end))
    /\ UNCHANGED <<sp_src, sp_pos, sp_chunks, sp_flowing, sp_resumed, sp_listeners,
                   sp_isInitialized, sp_outRead, sp_streamTaken, sp_hdrCall, sp_hashCall,
                   sp_writeFile, sp_test>>
    /\ UNCHANGED <<varsOQ, varsSQ, varsPQ, varsUR, varsCW>>

\* The source fails before it ends: it emits 'error' and produces nothing more.
SPError ==
    /\ sp_srcState = "open"
    /\ sp_srcState' = "errored"
    /\ sp_setState(sp_emitError(sp_state, sp_listeners.error))
    /\ UNCHANGED <<sp_src, sp_pos, sp_chunks, sp_flowing, sp_resumed, sp_listeners,
                   sp_isInitialized, sp_outRead, sp_streamTaken, sp_hdrCall, sp_hashCall,
                   sp_writeFile, sp_test>>
    /\ UNCHANGED <<varsOQ, varsSQ, varsPQ, varsUR, varsCW>>

\* The source is destroyed without an error (file_stream.destroy()): it emits
\* 'close' only, which the piper does not listen to.
SPDestroy ==
    /\ sp_srcState = "open"
    /\ sp_srcState' = "destroyed"
    /\ UNCHANGED <<sp_src, sp_pos, sp_chunks, sp_flowing, sp_resumed, sp_listeners,
                   sp_isInitialized, sp_isHeaderFinalized, sp_header, sp_hashInput,
                   sp_dataHash, sp_headerPromise, sp_hashPromise, sp_out, sp_outRead,
                   sp_outEnded, sp_outError, sp_streamTaken, sp_hdrCall, sp_hashCall,
                   sp_writeFile, sp_test>>
    /\ UNCHANGED <<varsOQ, varsSQ, varsPQ, varsUR, varsCW>>

\* ---- the calls
\* getHeader() up to its await, lines 94-96
SPGetHeaderCall(c) ==
    /\ sp_hdrCall[c].pc = "idle"
    /\ IF sp_isHeaderFinalized
       THEN /\ sp_hdrCall' = [sp_hdrCall EXCEPT ![c] = [pc |-> "returned", value |-> sp_header]]
            /\ sp_test' = sp_script(sp_script(sp_test, "hdrCall"), "hdrRet")
            /\ UNCHANGED <<sp_isInitialized, sp_listeners, sp_flowing, sp_resumed>>
       ELSE /\ sp_initialize
            /\ sp_hdrCall' = [sp_hdrCall EXCEPT ![c].pc = "waiting"]
            /\ sp_test' = sp_script(sp_test, "hdrCall")
    /\ UNCHANGED <<sp_src, sp_pos, sp_chunks, sp_srcState, sp_isHeaderFinalized, sp_header,
                   sp_hashInput, sp_dataHash, sp_headerPromise, sp_hashPromise, sp_out,
                   sp_outRead, sp_outEnded, sp_outError, sp_streamTaken, sp_hashCall,
                   sp_writeFile>>
    /\ UNCHANGED <<varsOQ, varsSQ, varsPQ, varsUR, varsCW>>

\* (mutant) getHeader() returns without pausing the source
SPGetHeaderResume_NoPause(c) ==
    /\ sp_hdrCall[c].pc = "waiting"
    /\ sp_headerPromise.state = "resolved"
    /\ sp_hdrCall' = [sp_hdrCall EXCEPT ![c] = [pc |-> "returned",
                                                value |-> sp_headerPromise.value]]
    /\ sp_test' = sp_script(sp_test, "hdrRet")
    /\ UNCHANGED <<sp_src, sp_pos, sp_chunks, sp_flowing, sp_resumed, sp_srcState,
                   sp_listeners, sp_isInitialized, sp_isHeaderFinalized, sp_header,
                   sp_hashInput, sp_dataHash, sp_headerPromise, sp_hashPromise, sp_out,
                   sp_outRead, sp_outEnded, sp_outError, sp_streamTaken, sp_hashCall,
                   sp_writeFile>>
    /\ UNCHANGED <<varsOQ, varsSQ, varsPQ, varsUR, varsCW>>

\* getHeader() after its await, lines 96-98: the source is paused
SPGetHeaderResume(c) ==
    /\ sp_hdrCall[c].pc = "waiting"
    /\ sp_headerPromise.state = "resolved"
    /\ sp_flowing' = FALSE
    /\ sp_hdrCall' = [sp_hdrCall EXCEPT ![c] = [pc |-> "returned",
                                                value |-> sp_headerPromise.value]]
    /\ sp_test' = sp_script(sp_test, "hdrRet")
    /\ UNCHANGED <<sp_src, sp_pos, sp_chunks, sp_resumed, sp_srcState, sp_listeners,
                   sp_isInitialized, sp_isHeaderFinalized, sp_header, sp_hashInput,
                   sp_dataHash, sp_headerPromise, sp_hashPromise, sp_out, sp_outRead,
                   sp_outEnded, sp_outError, sp_streamTaken, sp_hashCall, sp_writeFile>>
    /\ UNCHANGED <<varsOQ, varsSQ, varsPQ, varsUR, varsCW>>

\* getStream(), lines 106-110
SPGetStream ==
    /\ sp_initializeAndResume
    /\ sp_streamTaken' = TRUE
    /\ sp_test' = sp_script(sp_test, "streamCall")
    /\ UNCHANGED <<sp_src, sp_pos, sp_chunks, sp_srcState, sp_isHeaderFinalized, sp_header,
                   sp_hashInput, sp_dataHash, sp_headerPromise, sp_hashPromise, sp_out,
                   sp_outRead, sp_outEnded, sp_outError, sp_hdrCall, sp_hashCall,
                   sp_writeFile>>
    /\ UNCHANGED <<varsOQ, varsSQ, varsPQ, varsUR, varsCW>>

\* (mutant) getHash() drives the source without looking at dataHash
SPGetHashCall_AlwaysDrives(c) ==
    /\ sp_hashCall[c].pc = "idle"
    /\ sp_initializeAndResume
    /\ sp_hashCall' = [sp_hashCall EXCEPT ![c].pc = "waiting"]
    /\ sp_test' = sp_script(sp_test, "hashCall")
    /\ UNCHANGED <<sp_src, sp_pos, sp_chunks, sp_srcState, sp_isHeaderFinalized, sp_header,
                   sp_hashInput, sp_dataHash, sp_headerPromise, sp_hashPromise, sp_out,
                   sp_outRead, sp_outEnded, sp_outError, sp_streamTaken, sp_hdrCall,
                   sp_writeFile>>
    /\ UNCHANGED <<varsOQ, varsSQ, varsPQ, varsUR, varsCW>>

\* getHash() up to its await, lines 116-120
SPGetHashCall(c) ==
    /\ sp_hashCall[c].pc = "idle"
    /\ IF sp_dataHash # <<>>
       THEN /\ sp_hashCall' = [sp_hashCall EXCEPT ![c] = [pc |-> "returned",
                                                          value |-> sp_dataHash]]
            /\ sp_test' = sp_script(sp_script(sp_test, "hashCall"), "hashRet")
            /\ UNCHANGED <<sp_isInitialized, sp_listeners, sp_flowing, sp_resumed>>
       ELSE /\ sp_initializeAndResume
            /\ sp_hashCall' = [sp_hashCall EXCEPT ![c].pc = "waiting"]
            /\ sp_test' = sp_script(sp_test, "hashCall")
    /\ UNCHANGED <<sp_src, sp_pos, sp_chunks, sp_srcState, sp_isHeaderFinalized, sp_header,
                   sp_hashInput, sp_dataHash, sp_headerPromise, sp_hashPromise, sp_out,
                   sp_outRead, sp_outEnded, sp_outError, sp_streamTaken, sp_hdrCall,
                   sp_writeFile>>
    /\ UNCHANGED <<varsOQ, varsSQ, varsPQ, varsUR, varsCW>>

\* getHash() once hashPromise is resolved
SPGetHashResume(c) ==
    /\ sp_hashCall[c].pc = "waiting"
    /\ sp_hashPromise.state = "resolved"
    /\ sp_hashCall' = [sp_hashCall EXCEPT ![c] = [pc |-> "returned",
                                                  value |-> sp_hashPromise.value]]
    /\ sp_test' = sp_script(sp_test, "hashRet")
    /\ UNCHANGED <<sp_src, sp_pos, sp_chunks, sp_flowing, sp_resumed, sp_srcState,
                   sp_listeners, sp_isInitialized, sp_isHeaderFinalized, sp_header,
                   sp_hashInput, sp_dataHash, sp_headerPromise, sp_hashPromise, sp_out,
                   sp_outRead, sp_outEnded, sp_outError, sp_streamTaken, sp_hdrCall,
                   sp_writeFile>>
    /\ UNCHANGED <<varsOQ, varsSQ, varsPQ, varsUR, varsCW>>

\* writeFile() up to its await, lines 130-132: getStream(), then pipeline
SPWriteFileCall ==
    /\ sp_writeFile = "idle"
    /\ sp_initializeAndResume
    /\ sp_streamTaken' = TRUE
    /\ sp_writeFile' = "piping"
    /\ sp_test' = sp_script(sp_test, "wfCall")
    /\ UNCHANGED <<sp_src, sp_pos, sp_chunks, sp_srcState, sp_isHeaderFinalized, sp_header,
                   sp_hashInput, sp_dataHash, sp_headerPromise, sp_hashPromise, sp_out,
                   sp_outRead, sp_outEnded, sp_outError, sp_hdrCall, sp_hashCall>>
    /\ UNCHANGED <<varsOQ, varsSQ, varsPQ, varsUR, varsCW>>

\* pipeline() ends: the output stream was read to its end, or it failed
SPWriteFileEnd ==
    /\ sp_writeFile = "piping"
    /\ \/ /\ sp_outError
          /\ sp_writeFile' = "failed"
          /\ sp_test' = "off"
       \/ /\ ~sp_outError
          /\ sp_outEnded
          /\ sp_outRead = Len(sp_out)
          /\ sp_writeFile' = "done"
          /\ sp_test' = sp_script(sp_test, "wfDone")
    /\ UNCHANGED <<sp_src, sp_pos, sp_chunks, sp_flowing, sp_resumed, sp_srcState,
                   sp_listeners, sp_isInitialized, sp_isHeaderFinalized, sp_header,
                   sp_hashInput, sp_dataHash, sp_headerPromise, sp_hashPromise, sp_out,
                   sp_outRead, sp_outEnded, sp_outError, sp_streamTaken, sp_hdrCall,
                   sp_hashCall>>
    /\ UNCHANGED <<varsOQ, varsSQ, varsPQ, varsUR, varsCW>>

\* The consumer of the output stream reads what is buffered.
SPRead ==
    /\ sp_streamTaken
    /\ sp_outRead < Len(sp_out)
    /\ sp_outRead' = Len(sp_out)
    /\ UNCHANGED <<sp_src, sp_pos, sp_chunks, sp_flowing, sp_resumed, sp_srcState,
                   sp_listeners, sp_isInitialized, sp_isHeaderFinalized, sp_header,
                   sp_hashInput, sp_dataHash, sp_headerPromise, sp_hashPromise, sp_out,
                   sp_outEnded, sp_outError, sp_streamTaken, sp_hdrCall, sp_hashCall,
                   sp_writeFile, sp_test>>
    /\ UNCHANGED <<varsOQ, varsSQ, varsPQ, varsUR, varsCW>>

\* what the consumer has received from the output stream
sp_received == SubSeq(sp_out, 1, sp_outRead)

NextSP ==
    \/ \E n \in 1..MaxChunk : SPData(n)
    \/ SPEnd
    \/ SPError
    \/ SPDestroy
    \/ \E c \in HdrCallers : SPGetHeaderCall(c)
    \/ \E c \in HdrCallers : SPGetHeaderResume(c)
    \/ SPGetStream
    \/ \E c \in HashCallers : SPGetHashCall(c)
    \/ \E c \in HashCallers : SPGetHashResume(c)
    \/ SPWriteFileCall
    \/ SPWriteFileEnd
    \/ SPRead

\* ---------------------------------------------------------------- claims, StreamPiper
SrcLen == Len(sp_src)
OutputDrained == sp_outEnded /\ sp_outRead = Len(sp_out)

\* C5: for a source of any length and chunking, every value getHeader()
\* returns is the first min(L, HEADER_SIZE) bytes of the source, every value
\* getHash() returns is the digest of all L bytes, and the output stream read
\* to its end has yielded the L source bytes in source order; this covers the
\* sequence getHeader(), writeFile(), getHash() of runTest.
C5_HeaderHashOutput ==
    /\ \A c \in HdrCallers :
          sp_hdrCall[c].pc = "returned"
              => sp_hdrCall[c].value = SubSeq(sp_src, 1, Min(SrcLen, HEADER_SIZE))
    /\ \A c \in HashCallers :
          sp_hashCall[c].pc = "returned" => sp_hashCall[c].value = Digest(sp_src)
    /\ OutputDrained => sp_received = sp_src
    /\ sp_writeFile = "done" => sp_received = sp_src

\* C5 witness: runTest ran to its end (getHeader, then writeFile, then
\* getHash) on a source longer than the header that came in several chunks.
C5_Witness ==
    /\ sp_test = "hashed"
    /\ SrcLen > HEADER_SIZE
    /\ sp_chunks >= 2
    /\ sp_writeFile = "done"

\* C6: whatever calls are made, the source's handlers are attached at most
\* once (exactly once after the first call that needs the source), and the
\* bytes hashed and the bytes written to the output stream are each exactly
\* the bytes the source has emitted, in order.
C6_SinglePass ==
    /\ sp_listeners.data <= 1 /\ sp_listeners.end <= 1 /\ sp_listeners.error <= 1
    /\ sp_isInitialized => sp_listeners = [data |-> 1, end |-> 1, error |-> 1]
    /\ sp_hashInput = SubSeq(sp_src, 1, sp_pos)
    /\ sp_out = SubSeq(sp_src, 1, sp_pos)

\* C6 witness: getHeader (twice), getHash, getStream and writeFile were all
\* called, not in runTest's order, and the whole source went through.
C6_Witness ==
    /\ sp_test = "off"
    /\ \A c \in HdrCallers : sp_hdrCall[c].pc # "idle"
    /\ \E c \in HashCallers : sp_hashCall[c].pc # "idle"
    /\ sp_writeFile # "idle"
    /\ sp_srcState = "ended"
    /\ SrcLen > HEADER_SIZE
    /\ sp_chunks >= 2

\* C10 (the claim as stated): in the step in which the source emits an error
\* or is destroyed before its end, an error of an initialized piper is
\* forwarded to the output stream and the promise of every pending
\* getHeader() and getHash() call is settled.
C10_Step ==
    (sp_srcState = "open" /\ sp_srcState' \in {"errored", "destroyed"}) =>
        /\ (sp_srcState' = "errored" /\ sp_isInitialized) => sp_outError'
        /\ \A c \in HdrCallers :
              sp_hdrCall[c].pc = "waiting" => sp_headerPromise'.state = "resolved"
        /\ \A c \in HashCallers :
              sp_hashCall[c].pc = "waiting" => sp_hashPromise'.state = "resolved"

C10_ErrorSettlesWaiters == [][C10_Step]_vars

\* C23, in every step: a getHeader() call that waited for the header pauses
\* the source as it returns; a paused source emits no chunk, so nothing more
\* is hashed or written; and an initialized piper's paused source is set
\* flowing again only by a getStream(), getHash() or writeFile() call, never
\* by a getHeader() call.
C23_Step ==
    /\ \A c \in HdrCallers :
          (sp_hdrCall[c].pc = "waiting" /\ sp_hdrCall'[c].pc = "returned") => ~sp_flowing'
    /\ ~sp_flowing =>
          /\ sp_pos' = sp_pos
          /\ sp_chunks' = sp_chunks
          /\ sp_hashInput' = sp_hashInput
          /\ sp_out' = sp_out
    /\ (sp_isInitialized /\ ~sp_flowing /\ sp_flowing') =>
          /\ sp_hdrCall' = sp_hdrCall
          /\ \/ sp_streamTaken'
             \/ \E c \in HashCallers :
                   sp_hashCall[c].pc = "idle" /\ sp_hashCall'[c].pc = "waiting"

\* C23: after a getHeader() call that had to drive the source has returned,
\* no further chunk of the source is consumed until getStream(), getHash() or
\* writeFile() resumes it.
C23_PausedAfterHeader == [][C23_Step]_vars

\* C23 witness: getHeader() was the only call, it has returned after the
\* source delivered the header, and the source is held paused with bytes left.
C23_Witness ==
    /\ sp_test = "header"
    /\ sp_srcState = "open"
    /\ ~sp_flowing
    /\ sp_pos >= HEADER_SIZE
    /\ sp_pos < SrcLen

\* C24, in every state: the digest promise is resolved, dataHash is set and a
\* getHash() call has returned only when the source has emitted 'end', and the
\* value is then the digest of every byte of the source.
C24_State ==
    /\ sp_hashPromise.state = "resolved" =>
          /\ sp_srcState = "ended"
          /\ sp_pos = SrcLen
          /\ sp_hashPromise.value = Digest(sp_src)
          /\ sp_dataHash = Digest(sp_src)
    /\ sp_dataHash # <<>> => sp_hashPromise.state = "resolved"
    /\ \A c \in HashCallers :
          sp_hashCall[c].pc = "returned" =>
              (sp_srcState = "ended" /\ sp_hashCall[c].value = Digest(sp_src))

\* C24, in every step: once set, the digest does not change.
C24_Step ==
    /\ sp_dataHash # <<>> => sp_dataHash' = sp_dataHash
    /\ sp_hashPromise.state = "resolved" => sp_hashPromise' = sp_hashPromise

\* C24: getHash() never resolves before the source has emitted 'end', the
\* digest covers every byte of the source, and it is set once.
C24_HashAfterEnd == [](C24_State) /\ [][C24_Step]_vars

\* C24 witness: a getHash() call that had to wait has returned the digest of
\* a source that came in several chunks, with nobody reading the output.
C24_Witness ==
    /\ \E c \in HashCallers : sp_hashCall[c].pc = "returned"
    /\ \A c \in HdrCallers : sp_hdrCall[c].pc = "idle"
    /\ ~sp_streamTaken
    /\ sp_outRead = 0
    /\ sp_chunks >= 2
    /\ SrcLen > HEADER_SIZE

\* what a getHeader() or getHash() call may not touch when the value is cached
sp_sourceSide ==
    <<sp_pos, sp_chunks, sp_flowing, sp_resumed, sp_srcState, sp_listeners,
      sp_isInitialized, sp_isHeaderFinalized, sp_header, sp_hashInput, sp_dataHash,
      sp_headerPromise, sp_hashPromise, sp_out, sp_outRead, sp_outEnded, sp_outError,
      sp_streamTaken, sp_writeFile>>

\* C25, in every step: a getHeader() call made with the header finalized, and
\* a getHash() call made with the digest known, returns at once with the value
\* the promise was resolved with, and leaves the source, its handlers, the
\* output stream and every other call as they were.
C25_Step ==
    /\ \A c \in HdrCallers :
          (sp_hdrCall[c].pc = "idle" /\ sp_hdrCall'[c].pc # "idle" /\ sp_isHeaderFinalized) =>
              /\ sp_hdrCall'[c] = [pc |-> "returned", value |-> sp_headerPromise.value]
              /\ sp_headerPromise.state = "resolved"
              /\ sp_sourceSide' = sp_sourceSide
              /\ sp_hashCall' = sp_hashCall
    /\ \A c \in HashCallers :
          (sp_hashCall[c].pc = "idle" /\ sp_hashCall'[c].pc # "idle" /\ sp_dataHash # <<>>) =>
              /\ sp_hashCall'[c] = [pc |-> "returned", value |-> sp_hashPromise.value]
              /\ sp_hashPromise.state = "resolved"
              /\ sp_sourceSide' = sp_sourceSide
              /\ sp_hdrCall' = sp_hdrCall

\* C25: getHeader() after the header is finalized and getHash() after the
\* digest is known return the cached value and change nothing else.
C25_CachedCallsAreIdempotent == [][C25_Step]_vars

\* C25 witness: in runTest's order getHash() was called after writeFile() had
\* ended, hence with the digest known, and returned it; the source, paused by
\* getHeader() and resumed by writeFile(), has ended.
C25_Witness ==
    /\ sp_test = "hashed"
    /\ sp_srcState = "ended"
    /\ \E c \in HashCallers :
          sp_hashCall[c] = [pc |-> "returned", value |-> sp_dataHash]

\* The source is held: it is open with bytes left, it is paused, and no call
\* that is under way will resume it (a pending getHeader() only pauses).
\* Nothing but a new getStream(), getHash() or writeFile() call sets it
\* flowing again.
SourceHeld ==
    /\ sp_isInitialized
    /\ sp_srcState = "open"
    /\ ~sp_flowing
    /\ sp_pos < SrcLen
    /\ \A c \in HdrCallers : sp_hdrCall[c].pc # "waiting"

\* C26 (the claim as stated): the pause of a getHeader() call strands nobody:
\* while the source is held no getHash() call is waiting for the digest and
\* no writeFile() call is waiting for the output stream to end.
C26_PauseStrandsNobody ==
    SourceHeld =>
        /\ \A c \in HashCallers : sp_hashCall[c].pc # "waiting"
        /\ sp_writeFile # "piping"

\* C27 (the claim as stated): with nobody reading the output stream, the
\* source is not left held while a requested getHash() is unresolved.
C27_ResolvesWithoutReader ==
    (SourceHeld /\ ~sp_streamTaken /\ sp_outRead = 0) =>
        \A c \in HashCallers :
            sp_hashCall[c].pc # "idle" => sp_hashPromise.state = "resolved"

\* bytes written to the output stream and not yet read
sp_buffered == Len(sp_out) - sp_outRead

\* C28 (the claim as stated): the bytes buffered in the output stream stay
\* within highWaterMark plus one chunk, whatever the length of the source.
C28_OutputBufferBounded == sp_buffered <= sp_highWaterMark + MaxChunk - 1

\* ================================================================ UploadRoute
\* (routes/upload.ts, UploadRoute._post, on the QueueTracker singleton, a
\*  QueueTrackerController built on the OrderedQueue with limit WORKER_COUNT)
Requests == 1..MaxRequests

\* QueueTrackerController.getSockets: the socketIds of the connected sockets
getSockets == 1..MaxSockets

\* the socketIds a request url can carry: 0 is '' (no id in the url), and
\* MaxSockets + 1 is an id that no connected socket has
SocketIds == 0..(MaxSockets + 1)

InitURv ==
    /\ qt_socketIdMap = [t \in Tickets |-> 0]
    /\ qt_reverseMap = [s \in SocketIds |-> 0]
    /\ ur_pc = [r \in Requests |-> "idle"]
    /\ ur_socketId = [r \in Requests |-> 0]
    /\ ur_position = [r \in Requests |-> 0]
    /\ ur_closed = [r \in Requests |-> FALSE]
    /\ ur_result = [r \in Requests |-> "none"]

\* QueueTrackerController.enqueue, for a socketId it accepts
qt_enqueue(socketId) ==
    /\ enqueue
    /\ LET id == oq_next + 1 IN
       /\ qt_socketIdMap' = IF socketId # 0 THEN [qt_socketIdMap EXCEPT ![id] = socketId]
                            ELSE qt_socketIdMap
       /\ qt_reverseMap' = IF socketId # 0 THEN [qt_reverseMap EXCEPT ![socketId] = id]
                           ELSE qt_reverseMap

\* QueueTrackerController.dequeue
qt_dequeue(id) ==
    /\ dequeue(id)
    /\ IF IndexOf(oq_queue, id) > -1
       THEN LET socketId == qt_socketIdMap[id] IN
            /\ qt_reverseMap' = IF socketId # 0 THEN [qt_reverseMap EXCEPT ![socketId] = 0]
                                ELSE qt_reverseMap
            /\ qt_socketIdMap' = [qt_socketIdMap EXCEPT ![id] = 0]
       ELSE UNCHANGED <<qt_socketIdMap, qt_reverseMap>>

URFrame == UNCHANGED <<varsSQ, varsPQ, varsSP, varsCW>>

\* _post lines 37-54: a request with a valid file arrives; it asks for a ticket,
\* attaches its 'close' handler, builds the StreamPiper and awaits wait(position)
URPost(r, socketId) ==
    /\ ur_pc[r] = "idle"
    /\ \A q \in 1..(r - 1) : ur_pc[q] # "idle"
    /\ ur_socketId' = [ur_socketId EXCEPT ![r] = socketId]
    /\ IF socketId # 0 /\ socketId \notin getSockets
       THEN \* enqueue returns null: 400.4
            /\ ur_pc' = [ur_pc EXCEPT ![r] = "rejected"]
            /\ ur_result' = [ur_result EXCEPT ![r] = "400.4"]
            /\ UNCHANGED <<varsOQ, qt_socketIdMap, qt_reverseMap, ur_position>>
       ELSE /\ qt_enqueue(socketId)
            /\ ur_position' = [ur_position EXCEPT ![r] = oq_next + 1]
            /\ ur_pc' = [ur_pc EXCEPT ![r] = "waiting"]
            /\ UNCHANGED ur_result
    /\ UNCHANGED ur_closed
    /\ URFrame

\* _post lines 41-45: the 'close' handler of the request: the client went away
\* (or the request completed); the file stream is destroyed, the ticket is
\* dequeued only if it is not active
URClose(r) ==
    /\ ur_pc[r] \notin {"idle", "rejected"}
    /\ ~ur_closed[r]
    /\ ur_closed' = [ur_closed EXCEPT ![r] = TRUE]
    /\ IF ~active(ur_position[r])
       THEN qt_dequeue(ur_position[r])
       ELSE UNCHANGED <<varsOQ, qt_socketIdMap, qt_reverseMap>>
    /\ UNCHANGED <<ur_pc, ur_socketId, ur_position, ur_result>>
    /\ URFrame

\* _post lines 54-56: wait(position) has settled
URWait(r) ==
    /\ ur_pc[r] = "waiting"
    /\ oq_promise[ur_position[r]] # "pending"
    /\ IF oq_promise[ur_position[r]] = "false"
       THEN /\ ur_pc' = [ur_pc EXCEPT ![r] = "left54"]
            /\ ur_result' = [ur_result EXCEPT ![r] = "undefined"]
       ELSE IF ur_closed[r]
            THEN \* file_stream.destroyed: return, outside the try block
                 /\ ur_pc' = [ur_pc EXCEPT ![r] = "left56"]
                 /\ ur_result' = [ur_result EXCEPT ![r] = "undefined"]
            ELSE \* try { ... await piper.getHeader()
                 /\ ur_pc' = [ur_pc EXCEPT ![r] = "header"]
                 /\ UNCHANGED ur_result
    /\ UNCHANGED <<varsOQ, qt_socketIdMap, qt_reverseMap, ur_socketId, ur_position, ur_closed>>
    /\ URFrame

\* the finally block of _post, lines 88-91
ur_finally(r, result) ==
    /\ qt_dequeue(ur_position[r])
    /\ ur_pc' = [ur_pc EXCEPT ![r] = "finished"]
    /\ ur_result' = [ur_result EXCEPT ![r] = result]
    /\ UNCHANGED <<ur_socketId, ur_position, ur_closed>>
    /\ URFrame

\* _post lines 62-65: getHeader() has resolved.  The header promise of a
\* StreamPiper settles on a 'data', 'end' or 'error' event of the source; a
\* destroyed source emits none of them, so the await never returns then.
URHeader(r, supported) ==
    /\ ur_pc[r] = "header"
    /\ ~ur_closed[r]
    /\ IF supported
       THEN /\ ur_pc' = [ur_pc EXCEPT ![r] = "writing"]
            /\ UNCHANGED <<varsOQ, qt_socketIdMap, qt_reverseMap, ur_socketId, ur_position,
                           ur_closed, ur_result>>
            /\ URFrame
       ELSE ur_finally(r, "400.3")

\* _post lines 65-67: writeFile() has resolved: the source has ended and the
\* pipeline has written everything.  A destroyed source never ends, the output
\* stream is not destroyed with it, and the pipeline does not settle.
URWritten(r) ==
    /\ ur_pc[r] = "writing"
    /\ ~ur_closed[r]
    /\ ur_pc' = [ur_pc EXCEPT ![r] = "processing"]
    /\ UNCHANGED <<varsOQ, qt_socketIdMap, qt_reverseMap, ur_socketId, ur_position,
                   ur_closed, ur_result>>
    /\ URFrame

\* _post lines 67-91: hash, database lookup and the ContentWorker job end in a
\* result or in a thrown error; either way the finally block runs
URProcessed(r, result) ==
    /\ ur_pc[r] = "processing"
    /\ ur_finally(r, result)

NextUR ==
    \/ \E r \in Requests, socketId \in SocketIds : URPost(r, socketId)
    \/ \E r \in Requests : URClose(r)
    \/ \E r \in Requests : URWait(r)
    \/ \E r \in Requests, supported \in BOOLEAN : URHeader(r, supported)
    \/ \E r \in Requests : URWritten(r)
    \/ \E r \in Requests, result \in {"200.0", "throw"} : URProcessed(r, result)

\* ---------------------------------------------------------------- claims, UploadRoute
\* requests for which wait() has returned true
ur_admitted == {r \in Requests :
                  ur_pc[r] \in {"left56", "header", "writing", "processing", "finished"}}

\* requests in active processing: admitted, their ticket not yet dequeued
ur_active == {r \in ur_admitted : inqueue(ur_position[r])}

\* C31: at any time at most K upload requests are in active processing, i.e.
\* have had wait() return true and have not yet dequeued their ticket, for any
\* interleaving of arrivals, completions, failures and client disconnects.
C31_AtMostKActive == Cardinality(ur_active) <= oq_limit

\* a full window with a request waiting behind it, after a client has gone
C31_Witness ==
    /\ Cardinality(ur_active) = oq_limit
    /\ \E r \in Requests : ur_pc[r] = "waiting" /\ oq_promise[ur_position[r]] = "pending"
    /\ \E r \in Requests : ur_closed[r]

\* the enqueued tickets associated with a socketId
qt_ticketsOf(socketId) == {t \in Range(oq_queue) : qt_socketIdMap[t] = socketId}

\* C32: QueueTracker.enqueue(socketId) adds no ticket and returns null when
\* socketId names no connected socket, and adds no second ticket for a
\* socketId that already has a ticket in the queue: at any time at most one
\* enqueued ticket is associated with a given socketId.
C32_OneTicketPerSocket ==
    /\ \A r \in Requests :
         (ur_pc[r] # "idle" /\ ur_socketId[r] # 0 /\ ur_socketId[r] \notin getSockets)
            => (ur_pc[r] = "rejected" /\ ur_position[r] = 0)
    /\ \A s \in SocketIds \ {0} : Cardinality(qt_ticketsOf(s)) <= 1

\* a request whose handler has returned, or awaits a promise that cannot
\* settle any more, after its 'close' handler has run: nothing is left that
\* would dequeue its ticket
ur_over(r) ==
    \/ ur_pc[r] \in {"left54", "left56", "finished"}
    \/ ur_pc[r] \in {"header", "writing"} /\ ur_closed[r]

\* C38: every ticket the upload handler obtains from QueueTracker.enqueue is
\* dequeued on every exit path (rejection, success, processing error, a file
\* stream found destroyed right after admission, a client disconnect while the
\* header or body is being streamed): once the handler of a request is over,
\* its ticket is not in the queue, so no active slot is held forever.
C38_TicketDequeuedOnEveryExit ==
    \A r \in Requests : ur_over(r) => ~inqueue(ur_position[r])

\* ================================================================ ContentWorker
\* (worker.ts, class ContentWorker and the message handler of the worker thread)
Jobs == 1..MaxJobs

\* every createWorkers call that finds WORKERS empty pushes WORKERS_COUNT workers
WorkerIds == 0..(MaxJobs * MaxWorkers - 1)

InitCWv ==
    /\ cw_WORKERS_COUNT \in 1..MaxWorkers
    /\ cw_FREE_WORKERS = cw_WORKERS_COUNT
    /\ cw_WORKER_INDEX = 0
    /\ cw_WORKERS \in {0, cw_WORKERS_COUNT}    \* created at startup (index.ts), or lazily
    /\ cw_pc = [j \in Jobs |-> "idle"]
    /\ cw_i = [j \in Jobs |-> 0]
    /\ cw_ready = <<>>
    /\ cw_worker = [j \in Jobs |-> -1]
    /\ cw_running = [w \in WorkerIds |-> {}]
    /\ cw_listeners = [w \in WorkerIds |-> {}]
    /\ cw_result = [j \in Jobs |-> 0]

CWFrame == UNCHANGED <<varsOQ, varsSQ, varsPQ, varsSP, varsUR>>

\* ContentWorker.waitInQueue, called by job j, up to its first await: the loop
\* is left at once when a worker is free (the caller resumes in a microtask),
\* and a 1 ms timer is armed otherwise
waitInQueue(j) ==
    IF cw_FREE_WORKERS = 0
    THEN /\ cw_pc' = [cw_pc EXCEPT ![j] = "polling"]
         /\ UNCHANGED cw_ready
    ELSE /\ cw_pc' = [cw_pc EXCEPT ![j] = "ready"]
         /\ cw_ready' = Append(cw_ready, j)

\* waitResult lines 88-89, called for job j
CWCall(j) ==
    /\ cw_pc[j] = "idle"
    /\ \A q \in 1..(j - 1) : cw_pc[q] # "idle"
    /\ IF cw_WORKERS = 0
       THEN \* createWorkers: WORKERS is empty, the first worker is started
            /\ cw_pc' = [cw_pc EXCEPT ![j] = "creating"]
            /\ UNCHANGED cw_ready
       ELSE waitInQueue(j)
    /\ UNCHANGED <<cw_WORKERS_COUNT, cw_FREE_WORKERS, cw_WORKER_INDEX, cw_WORKERS, cw_i,
                   cw_worker, cw_running, cw_listeners, cw_result>>
    /\ CWFrame

\* createWorkers lines 117-119: the worker started last has posted worker_loaded
CWLoaded(j) ==
    /\ cw_pc[j] = "creating"
    /\ cw_ready = <<>>
    /\ cw_WORKERS' = cw_WORKERS + 1
    /\ cw_i' = [cw_i EXCEPT ![j] = cw_i[j] + 1]
    /\ IF cw_i[j] + 1 < cw_WORKERS_COUNT
       THEN UNCHANGED <<cw_pc, cw_ready>>
       ELSE \* the loop ends, createWorkers returns
            /\ cw_pc' = [cw_pc EXCEPT ![j] = "created"]
            /\ cw_ready' = Append(cw_ready, j)
    /\ UNCHANGED <<cw_WORKERS_COUNT, cw_FREE_WORKERS, cw_WORKER_INDEX, cw_worker,
                   cw_running, cw_listeners, cw_result>>
    /\ CWFrame

\* waitResult line 89, after createWorkers
CWCreated(j) ==
    /\ cw_ready # <<>> /\ Head(cw_ready) = j
    /\ cw_pc[j] = "created"
    /\ IF cw_FREE_WORKERS = 0
       THEN /\ cw_pc' = [cw_pc EXCEPT ![j] = "polling"]
            /\ cw_ready' = Tail(cw_ready)
       ELSE /\ cw_pc' = [cw_pc EXCEPT ![j] = "ready"]
            /\ cw_ready' = Append(Tail(cw_ready), j)
    /\ UNCHANGED <<cw_WORKERS_COUNT, cw_FREE_WORKERS, cw_WORKER_INDEX, cw_WORKERS, cw_i,
                   cw_worker, cw_running, cw_listeners, cw_result>>
    /\ CWFrame

\* waitInQueue line 84: the timer fires and the loop finds a free worker
CWPoll(j) ==
    /\ cw_pc[j] = "polling"
    /\ cw_ready = <<>>
    /\ cw_FREE_WORKERS # 0
    /\ cw_pc' = [cw_pc EXCEPT ![j] = "ready"]
    /\ cw_ready' = Append(cw_ready, j)
    /\ UNCHANGED <<cw_WORKERS_COUNT, cw_FREE_WORKERS, cw_WORKER_INDEX, cw_WORKERS, cw_i,
                   cw_worker, cw_running, cw_listeners, cw_result>>
    /\ CWFrame

\* waitResult lines 90-105: the worker at WORKER_INDEX is taken, the listener is
\* attached to it and the request is posted
CWTake(j) ==
    /\ cw_ready # <<>> /\ Head(cw_ready) = j
    /\ cw_pc[j] = "ready"
    /\ LET worker == cw_WORKER_INDEX IN
       /\ cw_WORKER_INDEX' = (cw_WORKER_INDEX + 1) % cw_WORKERS
       /\ cw_FREE_WORKERS' = cw_FREE_WORKERS - 1
       /\ cw_worker' = [cw_worker EXCEPT ![j] = worker]
       /\ cw_listeners' = [cw_listeners EXCEPT ![worker] = @ \cup {j}]
       /\ cw_running' = [cw_running EXCEPT ![worker] = @ \cup {j}]
    /\ cw_pc' = [cw_pc EXCEPT ![j] = "awaiting"]
    /\ cw_ready' = Tail(cw_ready)
    /\ UNCHANGED <<cw_WORKERS_COUNT, cw_WORKERS, cw_i, cw_result>>
    /\ CWFrame

\* the jobs a message of worker w resolves: every listener attached to the
\* worker re-emits the message on its own job, whose once() handlers resolve
\* the promise of line 100 if it is still pending
cw_resolved(w) == {j \in cw_listeners[w] : cw_pc[j] = "awaiting"}

RECURSIVE AppendAll(_, _)
AppendAll(s, S) ==
    IF S = {} THEN s
    ELSE LET x == CHOOSE y \in S : \A z \in S : y <= z IN AppendAll(Append(s, x), S \ {x})

\* worker thread lines 132-163 and waitResult lines 97, 100-105: the handler of
\* worker w finishes the request of job a and posts its terminal message
\* (the result or an error)
CWRespond(w, a) ==
    /\ a \in cw_running[w]
    /\ cw_ready = <<>>
    /\ cw_running' = [cw_running EXCEPT ![w] = @ \ {a}]
    /\ cw_result' = [j \in Jobs |-> IF j \in cw_resolved(w) THEN a ELSE cw_result[j]]
    /\ cw_pc' = [j \in Jobs |-> IF j \in cw_resolved(w) THEN "resolved" ELSE cw_pc[j]]
    /\ cw_ready' = AppendAll(cw_ready, cw_resolved(w))
    /\ UNCHANGED <<cw_WORKERS_COUNT, cw_FREE_WORKERS, cw_WORKER_INDEX, cw_WORKERS, cw_i,
                   cw_worker, cw_listeners>>
    /\ CWFrame

\* waitResult lines 107-109
CWReturn(j) ==
    /\ cw_ready # <<>> /\ Head(cw_ready) = j
    /\ cw_pc[j] = "resolved"
    /\ cw_FREE_WORKERS' = cw_FREE_WORKERS + 1
    /\ cw_pc' = [cw_pc EXCEPT ![j] = "returned"]
    /\ cw_ready' = Tail(cw_ready)
    /\ UNCHANGED <<cw_WORKERS_COUNT, cw_WORKER_INDEX, cw_WORKERS, cw_i, cw_worker,
                   cw_running, cw_listeners, cw_result>>
    /\ CWFrame

NextCW ==
    \/ \E j \in Jobs : CWCall(j)
    \/ \E j \in Jobs : CWLoaded(j)
    \/ \E j \in Jobs : CWCreated(j)
    \/ \E j \in Jobs : CWPoll(j)
    \/ \E j \in Jobs : CWTake(j)
    \/ \E w \in WorkerIds, a \in Jobs : CWRespond(w, a)
    \/ \E j \in Jobs : CWReturn(j)

\* ---------------------------------------------------------------- claims, ContentWorker
\* C39: ContentWorker.FREE_WORKERS stays within 0..WORKERS_COUNT in every
\* reachable state: waitResult never takes a worker when none is free, for any
\* number of waitResult calls started concurrently.
C39_FreeWorkersInRange == cw_FREE_WORKERS \in 0..cw_WORKERS_COUNT

\* C40: a worker thread is given a new job only when it is not processing
\* another one, so each waitResult resolves with the response to its own
\* request and never with the result of a different job on the same worker.
C40_OwnWorkerOwnResult ==
    /\ \A w \in WorkerIds : Cardinality(cw_running[w]) <= 1
    /\ \A j \in Jobs : cw_result[j] \in {0, j}

\* ================================================================ specifications
Init == InitOQv /\ InitSQv /\ InitPQv /\ InitSPv /\ InitURv /\ InitCWv

\* each specification builds one object: the other classes' limits are fixed
InitUR == Init /\ sq_limit = 1 /\ pq_limit = 1 /\ sp_src = <<>> /\ cw_WORKERS_COUNT = 1 /\ cw_WORKERS = 0
InitCW == Init /\ oq_limit = 1 /\ sq_limit = 1 /\ pq_limit = 1 /\ sp_src = <<>>
InitOQ == Init /\ sq_limit = 1 /\ pq_limit = 1 /\ sp_src = <<>> /\ cw_WORKERS_COUNT = 1 /\ cw_WORKERS = 0
InitSQ == Init /\ oq_limit = 1 /\ pq_limit = 1 /\ sp_src = <<>> /\ cw_WORKERS_COUNT = 1 /\ cw_WORKERS = 0
InitPQ == Init /\ oq_limit = 1 /\ sq_limit = 1 /\ sp_src = <<>> /\ cw_WORKERS_COUNT = 1 /\ cw_WORKERS = 0
InitSP == Init /\ oq_limit = 1 /\ sq_limit = 1 /\ pq_limit = 1 /\ cw_WORKERS_COUNT = 1 /\ cw_WORKERS = 0

SpecOQ == InitOQ /\ [][NextOQ]_vars
SpecSQ == InitSQ /\ [][NextSQ]_vars
SpecPQ == InitPQ /\ [][NextPQ]_vars
SpecSP == InitSP /\ [][NextSP]_vars
SpecUR == InitUR /\ [][NextUR]_vars
SpecCW == InitCW /\ [][NextCW]_vars

====
